---- MODULE Spec2Model ----
(***************************************************************************)
(* Recap Rabbit: the episode pipeline (process_episode and the Job record  *)
(* it writes), the resume endpoint, the subscription ledger with the feed  *)
(* fetcher, and the subscription poll.                                     *)
(*                                                                         *)
(* Concurrency is asyncio: a coroutine runs until it awaits.  Every        *)
(* database call is awaited and commits one statement, so a database       *)
(* write is one atomic step and any other task may run between two         *)
(* awaited calls of the same coroutine.                                    *)
(***************************************************************************)
EXTENDS Integers, Sequences, FiniteSets, TLC

\* ---------------------------------------------------------------- bounds
MaxResumes == 1       \* resume requests over the life of the model
MaxRuns == MaxResumes + 1   \* the submitted run and one run per resume
MaxPolls == 2         \* status polls of one transcription that report progress
MaxOps == 2           \* feed operations over the life of the model
MaxBatches == 2       \* calls of auto_process_episodes over the life of the model
MaxConcurrentChecks == 1   \* MAX_CONCURRENT_CHECKS (5), scaled to two subscriptions
MaxFeedLen == 3       \* entries in a served feed
MaxRepublish == 1     \* times a podcast host changes what it serves
FetchLimit == 2       \* DEFAULT_EPISODE_LIMIT (100), scaled to MaxFeedLen

JobSeq == <<"ep1", "ep2">>      \* the uuid4 values, in the order they are drawn
JobIds == {JobSeq[i] : i \in DOMAIN JobSeq}
SubmitIds == {"ep1"}             \* the id process_url / upload_episode draws
RunIds == 1..MaxRuns
ReqIds == 1..MaxResumes
SubIds == {"s1", "s2"}
OpIds == 1..MaxOps
BatchIds == 1..MaxBatches

NULL == "NULL"        \* SQL NULL / Python None in a text column
NoBlob == 0           \* SQL NULL in transcript / cleaned_transcript / summary

\* Python truth of an optional string.
truthy(value) == value # NULL /\ value # ""

\* ------------------------------------------------------- ProcessingStatus
PENDING == "pending"
DOWNLOADING == "downloading"
TRANSCRIBING == "transcribing"
DIARIZING == "diarizing"
CLEANING == "cleaning"
SUMMARIZING == "summarizing"
COMPLETED == "completed"
FAILED == "failed"

ProcessingStatus ==
    {PENDING, DOWNLOADING, TRANSCRIBING, DIARIZING, CLEANING, SUMMARIZING,
     COMPLETED, FAILED}

\* Position of a stage in the forward order of the state machine.
StageRank(s) ==
    CASE s = PENDING -> 0
      [] s = DOWNLOADING -> 1
      [] s = TRANSCRIBING -> 2
      [] s = DIARIZING -> 3
      [] s = CLEANING -> 4
      [] s = SUMMARIZING -> 5
      [] s = COMPLETED -> 6
      [] s = FAILED -> 7
      [] OTHER -> 0 - 1

\* Audio durations get_audio_duration can measure (0 when the probe fails).
Durations == {0, 1}

\* Seconds slept between two status polls of the transcription service.
POLL_SLEEP == 3

VARIABLES
    episodes,      \* the episodes table: JobIds -> row, or NoRow
    runs,          \* process_episode invocations: RunIds -> frame
    detached,      \* update_status tasks created by transcription_progress
                   \* and not yet executed
    resume,        \* resume_episode requests: ReqIds -> frame
    everCompleted, \* the Jobs to which status = completed was ever written
    subscriptions, \* the subscriptions table: SubIds -> row
    feeds,         \* what each podcast host serves now: SubIds -> list of entries
    ledger,        \* the subscription_episodes table, in insertion order
    ops,           \* feed operations in flight: OpIds -> frame
    lastCheck,     \* per subscription: the entries served to the last check that
                   \* returned normally
    poll,          \* the frame of check_all_active_subscriptions
    tasks,         \* its check_with_semaphore tasks: SubIds -> frame
    batches        \* frames of the calls that work on ledger entries:
                   \* auto_process_episodes, batch_process_episodes (each with its
                   \* process_subscription_episodes) and reset_stuck_episodes

pipelineVars == <<episodes, runs, detached, resume, everCompleted>>
ledgerVars == <<subscriptions, feeds, ledger, ops, lastCheck>>
pollVars == <<poll, tasks, batches>>

NoRow == [status |-> "absent"]

Exists(j) == episodes[j] # NoRow

\* ------------------------------------------------------------ repository
\* INSERT INTO episodes ... status = pending, progress = 0.
create_episode ==
    [status |-> PENDING, progress |-> 0, status_message |-> NULL,
     error |-> NULL, checkpoint_stage |-> NULL,
     transcript |-> NoBlob, cleaned_transcript |-> NoBlob, summary |-> NoBlob]

\* Mutant: a static UPDATE of all six columns, None written as NULL.
update_episode_status_static(row, status, progress, error, message, checkpoint) ==
    IF row = NoRow THEN row
    ELSE [row EXCEPT
            !.status = status,
            !.progress = progress,
            !.error = error,
            !.status_message = message,
            !.checkpoint_stage = checkpoint]

\* UPDATE episodes SET status, progress, updated_at [, error] [, status_message]
\* [, checkpoint_stage] WHERE id = ?  -- the optional columns only when the
\* argument is not None.
update_episode_status(row, status, progress, error, message, checkpoint) ==
    IF row = NoRow THEN row
    ELSE [row EXCEPT
            !.status = status,
            !.progress = progress,
            !.error = IF error # NULL THEN error ELSE @,
            !.status_message = IF message # NULL THEN message ELSE @,
            !.checkpoint_stage = IF checkpoint # NULL THEN checkpoint ELSE @]

\* Mutant: the cleaned_transcript column is left out of the UPDATE.
update_episode_transcript_raw_only(row, blob) ==
    IF row = NoRow THEN row
    ELSE [row EXCEPT !.transcript = blob, !.checkpoint_stage = "transcribed"]

\* UPDATE episodes SET transcript, cleaned_transcript, checkpoint_stage =
\* 'transcribed'.  The text written is identified by the run that produced it.
update_episode_transcript(row, blob) ==
    IF row = NoRow THEN row
    ELSE [row EXCEPT
            !.transcript = blob,
            !.cleaned_transcript = blob,
            !.checkpoint_stage = "transcribed"]

\* UPDATE episodes SET summary, checkpoint_stage = 'summarized'.
update_episode_summary(row, blob) ==
    IF row = NoRow THEN row
    ELSE [row EXCEPT !.summary = blob, !.checkpoint_stage = "summarized"]

\* SELECT ... FROM episodes WHERE status NOT IN ('completed', 'failed').
get_incomplete_episodes ==
    {j \in JobIds : Exists(j) /\ episodes[j].status \notin {COMPLETED, FAILED}}

\* ------------------------------------------------------------ transcription
\* transcribe_audio: 30 + int(min(elapsed / estimated_seconds, 0.95) * 25) with
\* estimated_seconds = (duration / 60, or 10 when the duration is 0) * 2.5 * 60.
\* 25 * elapsed / (2.5 * duration) = 10 * elapsed / duration, and
\* int(0.95 * 25) = 23.
\* simulated_progress without min(..., 0.95).
simulated_progress_uncapped(elapsed, duration) ==
    LET d == IF duration = 0 THEN 600 ELSE duration
    IN 30 + (10 * elapsed) \div d

simulated_progress(elapsed, duration) ==
    LET d == IF duration = 0 THEN 600 ELSE duration
        scaled == (10 * elapsed) \div d
    IN 30 + (IF scaled < 23 THEN scaled ELSE 23)

\* ------------------------------------------------------------ run frames
\* The audio_path of an uploaded file: a path in the upload directory.
LocalPath == [scheme |-> "file", host |-> <<>>]

\* audio_path is what process_episode was given; fetched records that
\* download_audio issued its GET.
NoRun ==
    [pc |-> "unborn", job |-> NULL, origin |-> NULL, by |-> 0, duration |-> 0,
     polls |-> 0, raised |-> NULL, propagated |-> FALSE,
     audio_path |-> LocalPath, fetched |-> FALSE]

\* `if audio_path.startswith("http"): local_path = await download_audio(...)`
Downloads(r) == runs[r].audio_path.scheme \in {"http", "https"}

Active(r) == runs[r].pc \notin {"unborn", "done"}

\* Mutant: the run skips to the step after the persisted checkpoint.
NewRun_from_checkpoint(j, origin) ==
    [NoRun EXCEPT
       !.pc = IF Exists(j) /\ episodes[j].checkpoint_stage = "transcribed"
              THEN "saved_transcript" ELSE "start",
       !.job = j, !.origin = origin]

NewRun(j, origin) ==
    [NoRun EXCEPT !.pc = "start", !.job = j, !.origin = origin]

\* One committed write of the Job row.
WriteRow(j, row) ==
    /\ episodes' = [episodes EXCEPT ![j] = row]
    /\ everCompleted' =
         IF row # NoRow /\ row.status = COMPLETED
         THEN everCompleted \cup {j} ELSE everCompleted

\* update_status as called on the main path of process_episode.
StatusStep(r, from, to, status, progress, message, checkpoint) ==
    /\ runs[r].pc = from
    /\ WriteRow(runs[r].job,
                update_episode_status(episodes[runs[r].job], status, progress,
                                      NULL, message, checkpoint))
    /\ runs' = [runs EXCEPT ![r].pc = to]
    /\ UNCHANGED <<detached, resume, ledgerVars, pollVars>>

\* ------------------------------------------------- process_episode, main path
\* await update_status(DOWNLOADING, 10, "Downloading audio file...")
StartDownload(r) ==
    StatusStep(r, "start", "downloading", DOWNLOADING, 10, "Downloading", NULL)

\* download_audio, convert_to_wav and get_audio_duration returned; the duration
\* is stored and update_status(TRANSCRIBING, 30, "Starting transcription...").
StartTranscription(r) ==
    /\ runs[r].pc = "downloading"
    /\ \E d \in Durations :
         /\ WriteRow(runs[r].job,
                     update_episode_status(episodes[runs[r].job], TRANSCRIBING,
                                           30, NULL, "Starting", NULL))
         /\ runs' = [runs EXCEPT ![r].pc = "transcribing", ![r].duration = d,
                                 ![r].fetched = Downloads(r)]
    /\ UNCHANGED <<detached, resume, ledgerVars, pollVars>>

\* One turn of the polling loop of transcribe_audio in which the service
\* answers queued or processing: progress_callback(simulated_progress, message)
\* runs transcription_progress, which only creates a task for update_status
\* and returns; then the loop sleeps.
PollProgress(r) ==
    /\ runs[r].pc = "transcribing"
    /\ runs[r].polls < MaxPolls
    /\ \E st \in {"queued", "processing"} :
         detached' = detached \cup
            {[job |-> runs[r].job, run |-> r,
              progress |-> simulated_progress(runs[r].polls * POLL_SLEEP,
                                              runs[r].duration),
              message |-> IF st = "queued" THEN "Queued" ELSE "Transcribing"]}
    /\ runs' = [runs EXCEPT ![r].polls = @ + 1]
    /\ UNCHANGED <<episodes, resume, everCompleted, ledgerVars, pollVars>>

\* Every later turn of the same loop (`while True`, no deadline): the counter
\* of the model stays at MaxPolls, so the elapsed time it reports does too.
PollSaturated(r) ==
    /\ runs[r].pc = "transcribing"
    /\ runs[r].polls = MaxPolls
    /\ \E st \in {"queued", "processing"} :
         detached' = detached \cup
            {[job |-> runs[r].job, run |-> r,
              progress |-> simulated_progress(runs[r].polls * POLL_SLEEP,
                                              runs[r].duration),
              message |-> IF st = "queued" THEN "Queued" ELSE "Transcribing"]}
    /\ UNCHANGED <<episodes, runs, resume, everCompleted, ledgerVars, pollVars>>

\* A task created by transcription_progress gets to run:
\* update_status(episode_id, TRANSCRIBING, progress, message=message).
\* Nothing orders it with the writes of the coroutine that created it.
ApplyDetached(t) ==
    /\ t \in detached
    /\ WriteRow(t.job,
                update_episode_status(episodes[t.job], TRANSCRIBING, t.progress,
                                      NULL, t.message, NULL))
    /\ detached' = detached \ {t}
    /\ UNCHANGED <<runs, resume, ledgerVars, pollVars>>

\* The service answers completed: usage is logged, the language stored and
\* update_status(TRANSCRIBING, 55, "Transcription complete!").
FinishTranscription(r) ==
    /\ runs[r].pc = "transcribing"
    /\ WriteRow(runs[r].job,
                update_episode_status(episodes[runs[r].job], TRANSCRIBING, 55,
                                      NULL, "Transcription complete", NULL))
    /\ runs' = [runs EXCEPT ![r].pc = "transcribed", ![r].polls = 0,
                            ![r].duration = 0]
    /\ UNCHANGED <<detached, resume, ledgerVars, pollVars>>

\* update_status(DIARIZING, 60, "Identifying speakers...")
StartDiarizing(r) ==
    StatusStep(r, "transcribed", "diarizing", DIARIZING, 60, "Identifying", NULL)

\* identify_speakers / apply_speaker_names returned;
\* update_status(CLEANING, 70, "Cleaning up transcript...")
StartCleaning(r) ==
    StatusStep(r, "diarizing", "cleaning", CLEANING, 70, "Cleaning", NULL)

\* cleanup_segments and segments_to_text returned;
\* repository.update_episode_transcript(episode_id, transcript, cleaned_text)
SaveTranscript(r) ==
    /\ runs[r].pc = "cleaning"
    /\ episodes' = [episodes EXCEPT ![runs[r].job] =
                      update_episode_transcript(@, r)]
    /\ runs' = [runs EXCEPT ![r].pc = "saved_transcript"]
    /\ UNCHANGED <<detached, resume, everCompleted, ledgerVars, pollVars>>

\* update_status(SUMMARIZING, 85, "Generating summary with AI...")
StartSummarizing(r) ==
    StatusStep(r, "saved_transcript", "summarizing", SUMMARIZING, 85,
               "Summarizing", NULL)

\* summarize_transcript returned; repository.update_episode_summary(...)
SaveSummary(r) ==
    /\ runs[r].pc = "summarizing"
    /\ episodes' = [episodes EXCEPT ![runs[r].job] = update_episode_summary(@, r)]
    /\ runs' = [runs EXCEPT ![r].pc = "saved_summary"]
    /\ UNCHANGED <<detached, resume, everCompleted, ledgerVars, pollVars>>

\* update_status(COMPLETED, 100, checkpoint="completed"); process_episode returns.
Complete(r) ==
    StatusStep(r, "saved_summary", "done", COMPLETED, 100, NULL, "completed")

\* ------------------------------------------------ process_episode, except path
\* The exceptions the steps of the try block raise, by the position of the run.
Raises(pc) ==
    CASE pc = "downloading" -> {"download failed", "FFmpeg error"}
      [] pc = "transcribing" -> {"Transcription failed", "transcription HTTP error"}
      [] pc = "diarizing" -> {"speaker identification failed"}
      [] pc = "cleaning" -> {"cleanup failed", "transcript write failed"}
      [] pc = "summarizing" -> {"summarization failed", "summary write failed"}
      [] OTHER -> {}

\* Mutant: no except branch; the exception leaves process_episode.
Fail_unhandled(r) ==
    /\ Active(r)
    /\ \E e \in Raises(runs[r].pc) :
         runs' = [runs EXCEPT ![r].pc = "done", ![r].raised = e,
                              ![r].polls = 0, ![r].duration = 0,
                              ![r].propagated = TRUE]
    /\ UNCHANGED <<episodes, everCompleted, detached, resume, ledgerVars, pollVars>>

\* The except branch passing the progress the Job has reached.
Fail_keeps_progress(r) ==
    /\ Active(r)
    /\ \E e \in Raises(runs[r].pc) :
         /\ WriteRow(runs[r].job,
                     update_episode_status(episodes[runs[r].job], FAILED,
                                           episodes[runs[r].job].progress, e,
                                           NULL, NULL))
         /\ runs' = [runs EXCEPT ![r].pc = "done", ![r].raised = e,
                                 ![r].polls = 0, ![r].duration = 0,
                                 ![r].propagated = FALSE,
                                 ![r].fetched = IF runs[r].pc = "downloading"
                                                THEN Downloads(r) ELSE @]
    /\ UNCHANGED <<detached, resume, ledgerVars, pollVars>>

\* except Exception as e: await update_status(episode_id, FAILED, error=str(e))
\* -- progress takes its default 0; the function then returns normally.
Fail(r) ==
    /\ Active(r)
    /\ \E e \in Raises(runs[r].pc) :
         /\ WriteRow(runs[r].job,
                     update_episode_status(episodes[runs[r].job], FAILED, 0, e,
                                           NULL, NULL))
         /\ runs' = [runs EXCEPT ![r].pc = "done", ![r].raised = e,
                                 ![r].polls = 0, ![r].duration = 0,
                                 ![r].propagated = FALSE,
                                 ![r].fetched = IF runs[r].pc = "downloading"
                                                THEN Downloads(r) ELSE @]
    /\ UNCHANGED <<detached, resume, ledgerVars, pollVars>>

\* ------------------------------------------------------------ ingress
\* create_episode followed by the start of process_episode for the new id
\* (process_url, upload_episode, process_subscription_episodes).
Submit(j) ==
    /\ ~Exists(j)
    /\ runs[1].pc = "unborn"
    /\ episodes' = [episodes EXCEPT ![j] = create_episode]
    /\ runs' = [runs EXCEPT ![1] = NewRun(j, "submit")]
    /\ UNCHANGED <<detached, resume, everCompleted, ledgerVars, pollVars>>

\* ------------------------------------------------------------ resume_episode
NoReq ==
    [pc |-> "idle", job |-> NULL, sawFailed |-> FALSE, didReset |-> FALSE,
     response |-> NULL]

\* resume_episode that resets a completed Job as it resets a failed one.
ResumeRead_resets_completed(q, j) ==
    /\ resume[q].pc = "idle"
    /\ resume' = [resume EXCEPT ![q] =
         IF ~Exists(j)
         THEN [@ EXCEPT !.pc = "done", !.job = j, !.response = "404"]
         ELSE IF episodes[j].status \in {COMPLETED, FAILED}
         THEN [@ EXCEPT !.pc = "reset", !.job = j, !.sawFailed = TRUE]
         ELSE [@ EXCEPT !.pc = "lookup", !.job = j]]
    /\ UNCHANGED <<episodes, runs, detached, everCompleted, ledgerVars, pollVars>>

\* episode = await repository.get_episode(episode_id) and the two rejections.
ResumeRead(q, j) ==
    /\ resume[q].pc = "idle"
    /\ resume' = [resume EXCEPT ![q] =
         IF ~Exists(j)
         THEN [@ EXCEPT !.pc = "done", !.job = j, !.response = "404"]
         ELSE IF episodes[j].status = COMPLETED
         THEN [@ EXCEPT !.pc = "done", !.job = j,
                        !.response = "400 already completed"]
         ELSE IF episodes[j].status = FAILED
         THEN [@ EXCEPT !.pc = "reset", !.job = j, !.sawFailed = TRUE]
         ELSE [@ EXCEPT !.pc = "lookup", !.job = j]]
    /\ UNCHANGED <<episodes, runs, detached, everCompleted, ledgerVars, pollVars>>

\* A reset that also clears the error column.
ResumeReset_clears_error(q) ==
    /\ resume[q].pc = "reset"
    /\ WriteRow(resume[q].job,
                [update_episode_status(episodes[resume[q].job], PENDING, 0,
                                       NULL, NULL, NULL) EXCEPT !.error = NULL])
    /\ resume' = [resume EXCEPT ![q].pc = "lookup", ![q].didReset = TRUE]
    /\ UNCHANGED <<runs, detached, ledgerVars, pollVars>>

\* if episode.status == FAILED: await update_status(episode_id, PENDING, 0)
ResumeReset(q) ==
    /\ resume[q].pc = "reset"
    /\ WriteRow(resume[q].job,
                update_episode_status(episodes[resume[q].job], PENDING, 0,
                                      NULL, NULL, NULL))
    /\ resume' = [resume EXCEPT ![q].pc = "lookup", ![q].didReset = TRUE]
    /\ UNCHANGED <<runs, detached, ledgerVars, pollVars>>

\* incomplete = await repository.get_incomplete_episodes(); 400 when the id is
\* not among them, otherwise background_tasks.add_task(process_episode, ...).
\* Every Job carries the audio source it was created with.
ResumeLookup(q) ==
    /\ resume[q].pc = "lookup"
    /\ IF resume[q].job \in get_incomplete_episodes
       THEN /\ runs[q + 1].pc = "unborn"
            /\ runs' = [runs EXCEPT ![q + 1] =
                          [NewRun(resume[q].job, "resume") EXCEPT !.by = q]]
            /\ resume' = [resume EXCEPT ![q].pc = "done",
                                        ![q].response = "resumed"]
       ELSE /\ resume' = [resume EXCEPT ![q].pc = "done",
                                        ![q].response = "400 no audio source"]
            /\ UNCHANGED runs
    /\ UNCHANGED <<episodes, detached, everCompleted, ledgerVars, pollVars>>

\* ------------------------------------------------------------ specifications
\* ================================================================ feeds
\* A feed URL after urlparse: the scheme, and the hostname as its labels
\* (the hostname string is the labels joined by ".").
ALLOWED_SCHEMES == {"http", "https"}
BLOCKED_HOSTS ==
    {<<"localhost">>, <<"127", "0", "0", "1">>, <<"0", "0", "0", "0">>, <<"::1">>}

PublicUrl == [scheme |-> "https", host |-> <<"feeds", "example", "com">>]
PrivateUrl == [scheme |-> "http", host |-> <<"10", "0", "0", "5">>]

startswith(host, prefix) ==
    /\ Len(host) > Len(prefix)
    /\ SubSeq(host, 1, Len(prefix)) = prefix

validate_feed_url(url) ==
    IF url.scheme \notin ALLOWED_SCHEMES THEN FALSE
    ELSE IF url.host \in BLOCKED_HOSTS THEN FALSE
    ELSE IF \/ startswith(url.host, <<"10">>)
            \/ startswith(url.host, <<"192", "168">>)
            \/ startswith(url.host, <<"172">>) THEN FALSE
    ELSE IF Len(url.host) < 2 THEN FALSE
    ELSE TRUE

\* What a podcast host serves: entries with an optional GUID, an optional
\* publish date (0 when missing or unparseable) and an optional audio
\* enclosure.
Enclosure(type, href) == [type |-> type, href |-> href]
Media(type, url) == [type |-> type, url |-> url]

FeedEntry(guid, date, enclosures, media_content) ==
    [guid |-> guid, date |-> date, enclosures |-> enclosures,
     media_content |-> media_content]

\* An entry with one audio enclosure, or with none.
Entry(guid, date, audio) ==
    FeedEntry(guid, date,
              IF audio = NULL THEN <<>> ELSE <<Enclosure("audio/mpeg", audio)>>,
              <<>>)

\* type.startswith('audio/') over the declared types of the model.
is_audio(type) == type \in {"audio/mpeg", "audio/mp4"}

\* The scan that looks past an audio item that carries no URL.
RECURSIVE first_audio_with_url(_)
first_audio_with_url(items) ==
    IF items = <<>> THEN <<>>
    ELSE IF is_audio(Head(items).type) /\ \A k \in DOMAIN Head(items) \ {"type"} :
                                            truthy(Head(items)[k])
         THEN <<Head(items)>>
    ELSE first_audio_with_url(Tail(items))

\* The first item of the list whose type is audio, as <<item>>, or <<>>.
RECURSIVE first_audio(_)
first_audio(items) ==
    IF items = <<>> THEN <<>>
    ELSE IF is_audio(Head(items).type) THEN <<Head(items)>>
    ELSE first_audio(Tail(items))

\* The audio URL of an entry: the href of the first audio enclosure (the
\* loop breaks there), else the url of the first audio media_content item;
\* NULL when neither gives one.
audio_url_of(entry) ==
    LET enclosure == first_audio(entry.enclosures)
        media == first_audio(entry.media_content)
    IN  IF enclosure # <<>> /\ truthy(enclosure[1].href) THEN enclosure[1].href
        ELSE IF media # <<>> /\ truthy(media[1].url) THEN media[1].url
        ELSE NULL
Entries ==
    {Entry("g1", 0, "audio"), Entry("g2", 0, "audio"), Entry("g3", 0, "audio"),
     Entry("g2", 1, NULL), Entry(NULL, 1, "audio")}

RECURSIVE SeqsUpTo(_, _)
SeqsUpTo(S, n) ==
    IF n = 0 THEN {<<>>}
    ELSE LET shorter == SeqsUpTo(S, n - 1)
         IN  shorter \cup {Append(f, e) : f \in {g \in shorter : Len(g) = n - 1}, e \in S}

FeedUniverse == SeqsUpTo(Entries, MaxFeedLen)

Range(f) == {f[i] : i \in DOMAIN f}

\* hashlib.md5(audio_url).hexdigest(): one digest per audio URL, and no
\* digest is a GUID that a feed of the model carries.
md5(audio_url) ==
    CASE audio_url = "audio" -> "md5:audio"
      [] audio_url = "audio2" -> "md5:audio2"
      [] audio_url = "media" -> "md5:media"

\* The episode dict fetch_rss_feed builds from one entry that has audio.
episode_dict(entry) ==
    [guid |-> IF entry.guid # NULL THEN entry.guid ELSE md5(audio_url_of(entry)),
     publish_date |-> entry.date,
     audio_url |-> audio_url_of(entry)]

RECURSIVE parse_entries(_)
parse_entries(entries) ==
    IF entries = <<>> THEN <<>>
    ELSE IF ~truthy(audio_url_of(Head(entries))) THEN parse_entries(Tail(entries))
    ELSE <<episode_dict(Head(entries))>> \o parse_entries(Tail(entries))

\* list.sort(key=publish_date or '', reverse=True): descending and stable,
\* so episodes with equal keys keep the order the feed gave them.
RECURSIVE sort_newest_first(_)
sort_newest_first(eps) ==
    IF eps = <<>> THEN <<>>
    ELSE LET rest == sort_newest_first(Tail(eps))
             e == Head(eps)
             k == Cardinality({i \in DOMAIN rest : rest[i].publish_date > e.publish_date})
         IN  SubSeq(rest, 1, k) \o <<e>> \o SubSeq(rest, k + 1, Len(rest))

NoLimit == 0 - 1      \* limit=None

truncate(eps, limit) ==
    SubSeq(eps, 1, IF limit < Len(eps) THEN limit ELSE Len(eps))

\* The list fetch_rss_feed returns when the URL is accepted and the
\* download succeeds.
fetch_rss_feed(entries, limit) ==
    LET sorted == sort_newest_first(parse_entries(entries))
    IN  IF limit # NoLimit /\ limit > 0 THEN truncate(sorted, limit) ELSE sorted

\* =============================================================== ledger
\* subscription_episodes: the id of a row is its position.
check_episode_exists(rows, s, guid) ==
    \E i \in DOMAIN rows : rows[i].subscription_id = s /\ rows[i].episode_guid = guid

ledger_row(s, ep) ==
    [subscription_id |-> s, episode_guid |-> ep.guid, publish_date |-> ep.publish_date,
     status |-> "pending", episode_id |-> NULL]

\* Inserts unconditionally.
create_subscription_episode_plain(rows, s, ep) ==
    Append(rows, ledger_row(s, ep))

\* Inserts unless the subscription already has the GUID; the caller gets the
\* new id, or None when nothing was inserted.
create_subscription_episode(rows, s, ep) ==
    IF check_episode_exists(rows, s, ep.guid) THEN rows
    ELSE Append(rows, ledger_row(s, ep))

RECURSIVE bulk_create_subscription_episodes(_, _, _)
bulk_create_subscription_episodes(rows, s, eps) ==
    IF eps = <<>> THEN rows
    ELSE bulk_create_subscription_episodes(
             create_subscription_episode(rows, s, Head(eps)), s, Tail(eps))

get_newest_episode_date(rows, s) ==
    LET dates == {rows[i].publish_date : i \in {k \in DOMAIN rows : rows[k].subscription_id = s}}
    IN  IF dates = {} THEN 0 ELSE CHOOSE d \in dates : \A other \in dates : other <= d

MAX_EPISODE_LIMIT == MaxFeedLen   \* 500, scaled with FetchLimit

\* ------------------------------------------------------ feed operations
\* One frame per call of check_subscription_for_new_episodes ("check"),
\* fetch_and_store_episodes ("initial") or the fetch-more endpoint ("more").
NoOp ==
    [kind |-> "none", pc |-> "idle", sub |-> NULL, feed_url |-> NULL,
     limit |-> 0, eps |-> <<>>,
     i |-> 0, fresh |-> <<>>, new_count |-> 0, new_episode_ids |-> <<>>,
     stored |-> 0, served |-> {}, prev |-> [done |-> FALSE, served |-> {}],
     outcome |-> NULL, caller |-> NULL, row_is_active |-> FALSE,
     requested |-> FALSE, artwork_url |-> <<>>, args |-> <<>>, result |-> <<>>,
     elapsed |-> 0]

CanStart(o) ==
    /\ ops[o].kind = "none"
    /\ \A p \in OpIds : p < o => ops[p].kind # "none"

\* The frame when the operation returns or raises to its caller.
Returned(f, outcome) ==
    [f EXCEPT !.pc = "done", !.outcome = outcome, !.eps = <<>>, !.i = 0, !.fresh = <<>>]

\* The frame of check_subscription_for_new_episodes(subscription_id, feed_url).
CheckCall(s, url) ==
    [NoOp EXCEPT !.kind = "check", !.pc = "fetch", !.sub = s, !.feed_url = url,
                 !.limit = FetchLimit]

StartCheck(o, s) ==
    /\ CanStart(o)
    /\ ops' = [ops EXCEPT ![o] = CheckCall(s, subscriptions[s].feed_url)]
    /\ UNCHANGED <<pipelineVars, pollVars, subscriptions, feeds, ledger, lastCheck>>

StartInitial(o, s) ==
    /\ CanStart(o)
    /\ ops' = [ops EXCEPT ![o] = [NoOp EXCEPT !.kind = "initial", !.pc = "fetch",
                                              !.sub = s, !.limit = FetchLimit,
                                              !.feed_url = subscriptions[s].feed_url]]
    /\ UNCHANGED <<pipelineVars, pollVars, subscriptions, feeds, ledger, lastCheck>>

StartMore(o, s, limit) ==
    /\ CanStart(o)
    /\ ops' = [ops EXCEPT ![o] =
                  [NoOp EXCEPT !.kind = "more", !.pc = "fetch", !.sub = s,
                               !.feed_url = subscriptions[s].feed_url,
                               !.limit = IF limit > MAX_EPISODE_LIMIT
                                         THEN MAX_EPISODE_LIMIT ELSE limit]]
    /\ UNCHANGED <<pipelineVars, pollVars, subscriptions, feeds, ledger, lastCheck>>

\* Mutant: the GET is issued without asking the guard.
FetchOk_unguarded(o) ==
    LET f == ops[o]
        s == f.sub
        eps == fetch_rss_feed(feeds[s].entries, IF f.kind = "more" THEN NoLimit ELSE f.limit)
        got == [f EXCEPT !.eps = eps, !.i = 1, !.served = Range(feeds[s].entries),
                         !.prev = lastCheck[s], !.requested = TRUE]
    IN  /\ f.pc = "fetch"
        /\ ops' = [ops EXCEPT ![o] =
                      IF f.kind = "initial"
                      THEN IF eps = <<>> THEN Returned(got, "ok")
                           ELSE [got EXCEPT !.pc = "store"]
                      ELSE [got EXCEPT !.pc = "loop"]]
        /\ UNCHANGED <<pipelineVars, pollVars, subscriptions, feeds, ledger, lastCheck>>

\* fetch_rss_feed returns: the guard accepted the URL, `client.get(feed_url)`
\* was issued and answered, the feed was parsed.
FetchOk(o) ==
    LET f == ops[o]
        s == f.sub
        eps == fetch_rss_feed(feeds[s].entries, IF f.kind = "more" THEN NoLimit ELSE f.limit)
        got == [f EXCEPT !.eps = eps, !.i = 1, !.served = Range(feeds[s].entries),
                         !.prev = lastCheck[s], !.requested = TRUE]
    IN  /\ f.pc = "fetch"
        /\ validate_feed_url(f.feed_url)
        /\ ops' = [ops EXCEPT ![o] =
                      IF f.kind = "initial"
                      THEN IF eps = <<>> THEN Returned(got, "ok")
                           ELSE [got EXCEPT !.pc = "store"]
                      ELSE [got EXCEPT !.pc = "loop"]]
        /\ UNCHANGED <<pipelineVars, pollVars, subscriptions, feeds, ledger, lastCheck>>

\* fetch_rss_feed raises: ValueError for a URL the guard rejects, before the
\* client is created; otherwise an httpx error of the GET that was issued,
\* or a parser error.  check and initial return their zero result;
\* fetch-more answers 400 or 500.
FetchRaises(o) ==
    LET f == ops[o]
    IN  /\ f.pc = "fetch"
        /\ ops' = [ops EXCEPT ![o] =
                      IF validate_feed_url(f.feed_url)
                      THEN Returned([f EXCEPT !.requested = TRUE], "HTTPError")
                      ELSE Returned(f, "ValueError")]
        /\ UNCHANGED <<pipelineVars, pollVars, subscriptions, feeds, ledger, lastCheck>>

\* check: one pass of `exists = await check_episode_exists(...)`.
LoopCheck(o) ==
    LET f == ops[o]
    IN  /\ f.kind = "check" /\ f.pc = "loop" /\ f.i <= Len(f.eps)
        /\ ops' = [ops EXCEPT ![o] =
                      IF check_episode_exists(ledger, f.sub, f.eps[f.i].guid)
                      THEN [f EXCEPT !.i = f.i + 1]
                      ELSE [f EXCEPT !.pc = "create"]]
        /\ UNCHANGED <<pipelineVars, pollVars, subscriptions, feeds, ledger, lastCheck>>

\* check: `ep_id = await create_subscription_episode(...)` and the counting
\* under `if ep_id`.
LoopCreate(o) ==
    LET f == ops[o]
        rows == create_subscription_episode(ledger, f.sub, f.eps[f.i])
        ep_id == IF Len(rows) > Len(ledger) THEN Len(rows) ELSE 0
    IN  /\ f.kind = "check" /\ f.pc = "create"
        /\ ledger' = rows
        /\ ops' = [ops EXCEPT ![o] =
                      IF ep_id # 0
                      THEN [f EXCEPT !.pc = "loop", !.i = f.i + 1,
                                     !.new_count = f.new_count + 1,
                                     !.new_episode_ids = Append(f.new_episode_ids, ep_id),
                                     !.stored = f.stored + 1]
                      ELSE [f EXCEPT !.pc = "loop", !.i = f.i + 1]]
        /\ UNCHANGED <<pipelineVars, pollVars, subscriptions, feeds, lastCheck>>

\* check: the loop is over and the result dict is returned.
CheckReturns(o) ==
    LET f == ops[o]
    IN  /\ f.kind = "check" /\ f.pc = "loop" /\ f.i > Len(f.eps)
        /\ ops' = [ops EXCEPT ![o] = Returned(f, "ok")]
        /\ lastCheck' = [lastCheck EXCEPT ![f.sub] = [done |-> TRUE, served |-> f.served]]
        /\ UNCHANGED <<pipelineVars, pollVars, subscriptions, feeds, ledger>>

\* fetch-more: one pass of the filter loop.
LoopMore(o) ==
    LET f == ops[o]
    IN  /\ f.kind = "more" /\ f.pc = "loop" /\ f.i <= Len(f.eps)
        /\ ops' = [ops EXCEPT ![o] =
                      IF check_episode_exists(ledger, f.sub, f.eps[f.i].guid)
                      THEN [f EXCEPT !.i = f.i + 1]
                      ELSE [f EXCEPT !.i = f.i + 1, !.fresh = Append(f.fresh, f.eps[f.i])]]
        /\ UNCHANGED <<pipelineVars, pollVars, subscriptions, feeds, ledger, lastCheck>>

\* fetch-more: `new_episodes = new_episodes[:limit]` and the empty case.
MoreTruncates(o) ==
    LET f == ops[o]
        new_episodes == truncate(f.fresh, f.limit)
    IN  /\ f.kind = "more" /\ f.pc = "loop" /\ f.i > Len(f.eps)
        /\ ops' = [ops EXCEPT ![o] =
                      IF new_episodes = <<>> THEN Returned(f, "ok")
                      ELSE [f EXCEPT !.pc = "store", !.fresh = new_episodes]]
        /\ UNCHANGED <<pipelineVars, pollVars, subscriptions, feeds, ledger, lastCheck>>

\* `count = await bulk_create_subscription_episodes(...)`.
Store(o) ==
    LET f == ops[o]
        rows == bulk_create_subscription_episodes(
                    ledger, f.sub, IF f.kind = "more" THEN f.fresh ELSE f.eps)
        counted == [f EXCEPT !.stored = Len(rows) - Len(ledger)]
    IN  /\ f.kind \in {"initial", "more"} /\ f.pc = "store"
        /\ ledger' = rows
        /\ ops' = [ops EXCEPT ![o] =
                      IF f.kind = "more" THEN Returned(counted, "ok")
                      ELSE [counted EXCEPT !.pc = "date"]]
        /\ UNCHANGED <<pipelineVars, pollVars, subscriptions, feeds, lastCheck>>

\* initial: last_episode_date is set to the newest stored publish date.
UpdateDate(o) ==
    LET f == ops[o]
        newest_date == get_newest_episode_date(ledger, f.sub)
    IN  /\ f.kind = "initial" /\ f.pc = "date"
        /\ subscriptions' =
              IF newest_date # 0
              THEN [subscriptions EXCEPT ![f.sub].last_episode_date = newest_date]
              ELSE subscriptions
        /\ ops' = [ops EXCEPT ![o] = Returned(f, "ok")]
        /\ UNCHANGED <<pipelineVars, pollVars, feeds, ledger, lastCheck>>

\* A repository call raises.  check returns new_count 0 and no ids whatever
\* it has stored; initial returns 0; fetch-more answers 500.
RepositoryRaises(o) ==
    LET f == ops[o]
    IN  /\ f.pc \in {"loop", "create", "store", "date"}
        /\ f.pc = "loop" => f.i <= Len(f.eps)
        /\ ops' = [ops EXCEPT ![o] =
                      Returned([f EXCEPT !.new_count = 0, !.new_episode_ids = <<>>],
                               "Exception")]
        /\ UNCHANGED <<pipelineVars, pollVars, subscriptions, feeds, ledger, lastCheck>>

\* The podcast host serves the same entries in another order.
Reorderings(entries) ==
    {[i \in DOMAIN entries |-> entries[p[i]]] : p \in Permutations(DOMAIN entries)}

Republish(s) ==
    /\ feeds[s].changes < MaxRepublish
    /\ \E entries \in Reorderings(feeds[s].entries) :
          /\ entries # feeds[s].entries
          /\ feeds' = [feeds EXCEPT ![s] = [entries |-> entries, changes |-> @.changes + 1]]
    /\ UNCHANGED <<pipelineVars, pollVars, subscriptions, ledger, ops, lastCheck>>

subscription_row(url, active) ==
    [feed_url |-> url, is_active |-> active, last_checked_at |-> NULL,
     last_episode_date |-> 0, artwork_url |-> <<>>]

\* ======================================================== artwork URLs
\* An optional artwork URL is <<>> (None) or <<url>>.  A URL after urlparse:
\* scheme, hostname labels, the directories of the path (each followed by
\* "/") and the text after the last "." of the path ("" when there is none).
ArtworkUrl(scheme, host, dirs, ext) ==
    [scheme |-> scheme, host |-> host, dirs |-> dirs, ext |-> ext]

\* The empty string.
EmptyUrl == ArtworkUrl("", <<>>, <<>>, "")

TRUSTED_ARTWORK_HOSTS ==
    {<<"is1-ssl", "mzstatic", "com">>, <<"is2-ssl", "mzstatic", "com">>,
     <<"is3-ssl", "mzstatic", "com">>, <<"is4-ssl", "mzstatic", "com">>,
     <<"is5-ssl", "mzstatic", "com">>, <<"i", "scdn", "co">>,
     <<"mosaic", "scdn", "co">>, <<"megaphone", "imgix", "net">>,
     <<"image", "simplecastcdn", "com">>, <<"ssl-static", "libsyn", "com">>,
     <<"assets", "pippa", "io">>, <<"images", "transistor", "fm">>,
     <<"d1bm3dmew779uf", "cloudfront", "net">>, <<"media", "redcircle", "com">>,
     <<"pbcdn1", "podbean", "com">>, <<"images", "buzzsprout", "com">>,
     <<"d3t3ozftmdmh3i", "cloudfront", "net">>, <<"storage", "pinecast", "net">>,
     <<"images", "podiant", "co">>, <<"www", "omnycontent", "com">>,
     <<"d", "radioline", "fr">>, <<"static", "libsyn", "com">>}

image_extensions == {"jpg", "jpeg", "png", "gif", "webp", "svg"}
image_path_markers == {"image", "images", "artwork", "cover", "thumb", "avatar"}

\* str.lower() on the path texts of the model.
lower(text) ==
    CASE text = "JPG" -> "jpg"
      [] text = "Images" -> "images"
      [] OTHER -> text

endswith(host, suffix) ==
    /\ Len(host) > Len(suffix)
    /\ SubSeq(host, Len(host) - Len(suffix) + 1, Len(host)) = suffix

\* validate_artwork_url without its list of trusted hosts.
validate_artwork_url_unlisted(url) ==
    IF url = <<>> \/ url = <<EmptyUrl>> THEN <<>>
    ELSE LET parsed == url[1]
         IN  IF parsed.scheme \notin ALLOWED_SCHEMES THEN <<>>
             ELSE IF parsed.host \in BLOCKED_HOSTS THEN <<>>
             ELSE IF \/ startswith(parsed.host, <<"10">>)
                     \/ startswith(parsed.host, <<"192", "168">>)
                     \/ startswith(parsed.host, <<"172">>) THEN <<>>
             ELSE IF Len(parsed.host) < 2 THEN <<>>
             ELSE IF \/ lower(parsed.ext) \in image_extensions
                     \/ \E i \in DOMAIN parsed.dirs :
                           lower(parsed.dirs[i]) \in image_path_markers
                  THEN url
             ELSE <<>>

validate_artwork_url(url) ==
    IF url = <<>> \/ url = <<EmptyUrl>> THEN <<>>
    ELSE LET parsed == url[1]
         IN  IF parsed.scheme \notin ALLOWED_SCHEMES THEN <<>>
             ELSE IF parsed.host \in BLOCKED_HOSTS THEN <<>>
             ELSE IF \/ startswith(parsed.host, <<"10">>)
                     \/ startswith(parsed.host, <<"192", "168">>)
                     \/ startswith(parsed.host, <<"172">>) THEN <<>>
             ELSE IF Len(parsed.host) < 2 THEN <<>>
             ELSE IF parsed.host \in TRUSTED_ARTWORK_HOSTS THEN url
             ELSE IF endswith(parsed.host, <<"mzstatic", "com">>) THEN url
             ELSE IF \/ lower(parsed.ext) \in image_extensions
                     \/ \E i \in DOMAIN parsed.dirs :
                           lower(parsed.dirs[i]) \in image_path_markers
                  THEN url
             ELSE <<>>

\* ================================================== POST /subscriptions
\* The row of an id no subscription has.
NoSubscription == [status |-> "absent", is_active |-> FALSE]

\* create_subscription: the guard on the feed URL (400), the artwork URL
\* kept or dropped, repository.create_subscription under a fresh id (it
\* answers False, 409, when the user already follows the podcast), and
\* fetch_and_store_episodes added as a background task.
accept_subscription(request, o, s) ==
    \E success \in BOOLEAN :
        IF success
        THEN /\ subscriptions' = [subscriptions EXCEPT ![s] =
                   [subscription_row(request.feed_url, TRUE) EXCEPT
                       !.artwork_url = validate_artwork_url(request.artwork_url)]]
             /\ ops' = [ops EXCEPT ![o] =
                   [request EXCEPT !.kind = "initial", !.pc = "fetch",
                                   !.limit = FetchLimit, !.caller = "subscribe"]]
        ELSE /\ ops' = [ops EXCEPT ![o] = Returned(request, "409")]
             /\ UNCHANGED subscriptions

\* create_subscription without its validate_feed_url test.
create_subscription_unguarded(o, s, feed_url, artwork_url) ==
    LET request == [NoOp EXCEPT !.kind = "subscribe", !.sub = s,
                                !.feed_url = feed_url, !.artwork_url = artwork_url]
    IN  /\ CanStart(o)
        /\ subscriptions[s] = NoSubscription
        /\ accept_subscription(request, o, s)
        /\ UNCHANGED <<pipelineVars, pollVars, feeds, ledger, lastCheck>>

create_subscription(o, s, feed_url, artwork_url) ==
    LET request == [NoOp EXCEPT !.kind = "subscribe", !.sub = s,
                                !.feed_url = feed_url, !.artwork_url = artwork_url]
    IN  /\ CanStart(o)
        /\ subscriptions[s] = NoSubscription
        /\ IF ~validate_feed_url(feed_url)
           THEN /\ ops' = [ops EXCEPT ![o] = Returned(request, "400")]
                /\ UNCHANGED subscriptions
           ELSE accept_subscription(request, o, s)
        /\ UNCHANGED <<pipelineVars, pollVars, feeds, ledger, lastCheck>>

\* =========================================== process_subscription_episodes
\* One frame per call of auto_process_episodes (the selection of the pending
\* entries, then process_subscription_episodes over them), of the
\* process-batch endpoint (validation, claim, then process_subscription_episodes
\* in the background) or of the reset-stuck endpoint.
NoBatch ==
    [pc |-> "idle", sub |-> NULL, ids |-> <<>>, eps |-> <<>>, k |-> 0,
     job |-> NULL, run |-> 0, response |-> NULL]

MAX_BATCH_SIZE_exclusive == 19 - 1    \* mutant: `>=` in place of `>`
MAX_BATCH_SIZE == 19

FreshJobs == {i \in DOMAIN JobSeq : ~Exists(JobSeq[i])}
FreeRuns == {r \in RunIds : runs[r].pc = "unborn"}
FreeBatches == {b \in BatchIds : batches[b].pc = "idle"}
FreeOps == {o \in OpIds : ops[o].kind = "none"}
Lowest(S) == CHOOSE x \in S : \A y \in S : x <= y

\* UPDATE subscription_episodes SET status = ?[, episode_id = ?] WHERE id IN ids.
update_subscription_episode_status(rows, ids, status, linked_episode_id) ==
    [i \in DOMAIN rows |->
        IF i \in ids
        THEN [rows[i] EXCEPT !.status = status,
                             !.episode_id = IF linked_episode_id # NULL
                                            THEN linked_episode_id ELSE @]
        ELSE rows[i]]

\* auto_process_episodes: `ep = await get_subscription_episode_by_id(ep_id)`
\* and the pending filter, one id per step.
AutoSelect(b) ==
    LET f == batches[b]
        id == f.ids[f.k]
    IN  /\ f.pc = "select" /\ f.k <= Len(f.ids)
        /\ batches' = [batches EXCEPT ![b] =
              [f EXCEPT !.k = f.k + 1,
                        !.eps = IF ledger[id].status = "pending"
                                THEN Append(f.eps, id) ELSE f.eps]]
        /\ UNCHANGED <<pipelineVars, ledgerVars, poll, tasks>>

\* `if episodes: await process_subscription_episodes(...)`.
AutoDispatch(b) ==
    LET f == batches[b]
    IN  /\ f.pc = "select" /\ f.k > Len(f.ids)
        /\ batches' = [batches EXCEPT ![b] =
              IF f.eps = <<>> THEN [f EXCEPT !.pc = "done", !.k = 0]
              ELSE [f EXCEPT !.pc = "mark", !.k = 1]]
        /\ UNCHANGED <<pipelineVars, ledgerVars, poll, tasks>>

\* "Mark as processing".
MarkProcessing(b) ==
    LET f == batches[b]
    IN  /\ f.pc = "mark"
        /\ ledger' = update_subscription_episode_status(
                         ledger, {f.eps[f.k]}, "processing", NULL)
        /\ batches' = [batches EXCEPT ![b].pc = "create"]
        /\ UNCHANGED <<pipelineVars, subscriptions, feeds, ops, lastCheck, poll, tasks>>

\* "Create an episode record" under a fresh uuid4.
CreateJob(b) ==
    LET f == batches[b]
    IN  /\ f.pc = "create"
        /\ FreshJobs # {}
        /\ LET j == JobSeq[Lowest(FreshJobs)]
           IN  /\ episodes' = [episodes EXCEPT ![j] = create_episode]
               /\ batches' = [batches EXCEPT ![b].pc = "link", ![b].job = j]
        /\ UNCHANGED <<runs, detached, resume, everCompleted, ledgerVars, poll, tasks>>

\* "Link subscription episode to main episode", then process_episode runs up
\* to its first await.
LinkJob(b) ==
    LET f == batches[b]
    IN  /\ f.pc = "link"
        /\ FreeRuns # {}
        /\ ledger' = update_subscription_episode_status(
                         ledger, {f.eps[f.k]}, "processing", f.job)
        /\ runs' = [runs EXCEPT ![Lowest(FreeRuns)] =
                       [NewRun(f.job, "subscription") EXCEPT !.by = b]]
        /\ batches' = [batches EXCEPT ![b].pc = "run", ![b].run = Lowest(FreeRuns)]
        /\ UNCHANGED <<episodes, detached, resume, everCompleted,
                       subscriptions, feeds, ops, lastCheck, poll, tasks>>

NextEpisode(f) ==
    IF f.k < Len(f.eps)
    THEN [f EXCEPT !.pc = "mark", !.k = f.k + 1, !.job = NULL, !.run = 0]
    ELSE [f EXCEPT !.pc = "done", !.k = 0, !.job = NULL, !.run = 0]

\* mutant: process_episode is started without being awaited
MarkCompleted_without_await(b) ==
    LET f == batches[b]
    IN  /\ f.pc = "run"
        /\ ledger' = update_subscription_episode_status(
                         ledger, {f.eps[f.k]}, "completed", NULL)
        /\ batches' = [batches EXCEPT ![b] = NextEpisode(f)]
        /\ UNCHANGED <<pipelineVars, subscriptions, feeds, ops, lastCheck, poll, tasks>>

\* process_episode returned: "Mark as completed".
MarkCompleted(b) ==
    LET f == batches[b]
    IN  /\ f.pc = "run"
        /\ runs[f.run].pc = "done"
        /\ ledger' = update_subscription_episode_status(
                         ledger, {f.eps[f.k]}, "completed", NULL)
        /\ batches' = [batches EXCEPT ![b] = NextEpisode(f)]
        /\ UNCHANGED <<pipelineVars, subscriptions, feeds, ops, lastCheck, poll, tasks>>

\* The except branch marks the entry failed and leaves the loop.
MarkFailed_and_break(b) ==
    LET f == batches[b]
    IN  /\ \/ f.pc \in {"mark", "create", "link"}
           \/ f.pc = "run" /\ runs[f.run].pc = "done"
        /\ ledger' = update_subscription_episode_status(
                         ledger, {f.eps[f.k]}, "failed", NULL)
        /\ batches' = [batches EXCEPT ![b] =
                          [f EXCEPT !.pc = "done", !.k = 0, !.job = NULL, !.run = 0]]
        /\ UNCHANGED <<pipelineVars, subscriptions, feeds, ops, lastCheck, poll, tasks>>

\* A repository call of the try block raises: the entry is marked failed.
MarkFailed(b) ==
    LET f == batches[b]
    IN  /\ \/ f.pc \in {"mark", "create", "link"}
           \/ f.pc = "run" /\ runs[f.run].pc = "done"
        /\ ledger' = update_subscription_episode_status(
                         ledger, {f.eps[f.k]}, "failed", NULL)
        /\ batches' = [batches EXCEPT ![b] = NextEpisode(f)]
        /\ UNCHANGED <<pipelineVars, subscriptions, feeds, ops, lastCheck, poll, tasks>>

\* A repository call raises outside any handler (a lookup of
\* auto_process_episodes, or the update inside the except block): the
\* exception leaves auto_process_episodes.
BatchRaises(b) ==
    LET f == batches[b]
    IN  /\ \/ f.pc = "select" /\ f.k <= Len(f.ids)
           \/ f.pc \in {"mark", "create", "link"}
        /\ batches' = [batches EXCEPT ![b] = [f EXCEPT !.pc = "raised"]]
        /\ UNCHANGED <<pipelineVars, ledgerVars, poll, tasks>>

\* ================================================= process-batch endpoint
Ids(n) == [i \in 1..n |-> i]

\* The ledger ids of a set, in ascending order.
RECURSIVE Ascending(_)
Ascending(S) ==
    IF S = {} THEN <<>>
    ELSE LET least == Lowest(S) IN <<least>> \o Ascending(S \ {least})

get_subscription_episodes_by_ids(rows, ids) == DOMAIN rows \cap Range(ids)

\* POST /{subscription_id}/process-batch up to the lookup: the two size checks.
BatchRequest(b, s, episode_ids) ==
    /\ FreeBatches # {} /\ b = Lowest(FreeBatches)
    /\ batches' = [batches EXCEPT ![b] =
          IF Len(episode_ids) > MAX_BATCH_SIZE
          THEN [NoBatch EXCEPT !.pc = "rejected", !.sub = s, !.ids = episode_ids,
                               !.response = "400 maximum"]
          ELSE IF episode_ids = <<>>
          THEN [NoBatch EXCEPT !.pc = "rejected", !.sub = s, !.response = "400 none selected"]
          ELSE [NoBatch EXCEPT !.pc = "lookup", !.sub = s, !.ids = episode_ids]]
    /\ UNCHANGED <<pipelineVars, ledgerVars, poll, tasks>>

\* `all_episodes = await get_subscription_episodes_by_ids(...)`, the filter to
\* the pending entries of the subscription, and the rejection when none is
\* left.
\* mutant: the filter without its subscription test
valid_episodes_of_any_subscription(rows, all_episodes, subscription_id) ==
    {i \in all_episodes : rows[i].status = "pending"}

\* "Filter to episodes that belong to this subscription and are pending"
valid_episodes(rows, all_episodes, subscription_id) ==
    {i \in all_episodes : /\ rows[i].subscription_id = subscription_id
                          /\ rows[i].status = "pending"}

BatchReads(b) ==
    LET f == batches[b]
        all_episodes == get_subscription_episodes_by_ids(ledger, f.ids)
        valid == valid_episodes(ledger, all_episodes, f.sub)
    IN  /\ f.pc = "lookup"
        /\ batches' = [batches EXCEPT ![b] =
              IF valid = {}
              THEN [f EXCEPT !.pc = "rejected", !.ids = <<>>,
                             !.response = "400 no valid pending"]
              ELSE [f EXCEPT !.pc = "claim", !.ids = <<>>,
                             !.eps = Ascending(valid)]]
        /\ UNCHANGED <<pipelineVars, ledgerVars, poll, tasks>>

\* "Mark episodes as processing", then process_subscription_episodes is
\* added as a background task and the response is sent.
BatchMarks(b) ==
    LET f == batches[b]
    IN  /\ f.pc = "claim"
        /\ ledger' = update_subscription_episode_status(
                         ledger, Range(f.eps), "processing", NULL)
        /\ batches' = [batches EXCEPT ![b] =
                          [f EXCEPT !.pc = "mark", !.k = 1, !.response = "200"]]
        /\ UNCHANGED <<pipelineVars, subscriptions, feeds, ops, lastCheck, poll, tasks>>

\* =================================================== reset-stuck endpoint
get_stuck_subscription_episodes(rows, s) ==
    {i \in DOMAIN rows : /\ rows[i].subscription_id = s
                         /\ rows[i].status = "processing"
                         /\ rows[i].episode_id = NULL}

\* POST /{subscription_id}/reset-stuck up to the update: the lookup of the
\* stuck entries and the answer when there is none.
ResetReads(b, s) ==
    LET stuck_episodes == get_stuck_subscription_episodes(ledger, s)
    IN  /\ FreeBatches # {} /\ b = Lowest(FreeBatches)
        /\ batches' = [batches EXCEPT ![b] =
              IF stuck_episodes = {}
              THEN [NoBatch EXCEPT !.pc = "reset_done", !.sub = s, !.response = 0]
              ELSE [NoBatch EXCEPT !.pc = "reset", !.sub = s,
                                   !.eps = Ascending(stuck_episodes)]]
        /\ UNCHANGED <<pipelineVars, ledgerVars, poll, tasks>>

\* "Reset them to pending" and the response with reset_count.
ResetWrites(b) ==
    LET f == batches[b]
    IN  /\ f.pc = "reset"
        /\ ledger' = update_subscription_episode_status(
                         ledger, Range(f.eps), "pending", NULL)
        /\ batches' = [batches EXCEPT ![b] =
                          [f EXCEPT !.pc = "reset_done", !.response = Len(f.eps)]]
        /\ UNCHANGED <<pipelineVars, subscriptions, feeds, ops, lastCheck, poll, tasks>>

\* ============================================== subscription endpoints
\* PUT /{subscription_id} with is_active set: the flag is written.
SetActive(s, is_active) ==
    /\ subscriptions[s].is_active # is_active
    /\ subscriptions' = [subscriptions EXCEPT ![s].is_active = is_active]
    /\ UNCHANGED <<pipelineVars, pollVars, feeds, ledger, ops, lastCheck>>

\* POST /{subscription_id}/check: `row = await get_subscription(...)`, then the
\* check is called with the row's feed URL.
EndpointChecks(o, s) ==
    /\ CanStart(o)
    /\ ops' = [ops EXCEPT ![o] =
                  [CheckCall(s, subscriptions[s].feed_url) EXCEPT
                      !.caller = "endpoint",
                      !.row_is_active = subscriptions[s].is_active]]
    /\ UNCHANGED <<pipelineVars, pollVars, subscriptions, feeds, ledger, lastCheck>>

\* The check returned: last_checked_at is written, and when the row read at
\* the start says active and there are new ids, auto_process_episodes is
\* added as a background task; the response is sent.
EndpointResponds(o) ==
    LET f == ops[o]
    IN  /\ f.caller = "endpoint" /\ f.pc = "done"
        /\ subscriptions' = [subscriptions EXCEPT ![f.sub].last_checked_at = "now"]
        /\ ops' = [ops EXCEPT ![o].pc = "responded"]
        /\ IF f.row_is_active /\ f.new_episode_ids # <<>>
           THEN /\ FreeBatches # {}
                /\ batches' = [batches EXCEPT ![Lowest(FreeBatches)] =
                      [NoBatch EXCEPT !.pc = "select", !.sub = f.sub, !.k = 1,
                                      !.ids = f.new_episode_ids]]
           ELSE UNCHANGED batches
        /\ UNCHANGED <<pipelineVars, feeds, ledger, lastCheck, poll, tasks>>

\* ======================================== check_all_active_subscriptions
NoTask ==
    [pc |-> "none", sub |-> NULL, op |-> 0, batch |-> 0,
     result |-> [success |-> FALSE, new_episodes |-> 0, error |-> NULL]]

NoPoll ==
    [pc |-> "idle", subscriptions |-> {}, permits |-> 0,
     result |-> [total |-> 0, checked |-> 0, new_episodes |-> 0, errors |-> 0]]

get_active_subscriptions == {s \in SubIds : subscriptions[s].is_active}

\* `subscriptions = await get_active_subscriptions()`, the empty case, the
\* semaphore, and one check_with_semaphore task per subscription.
PollStarts ==
    /\ poll.pc = "idle"
    /\ poll' = IF get_active_subscriptions = {}
               THEN [NoPoll EXCEPT !.pc = "done"]
               ELSE [NoPoll EXCEPT !.pc = "gather",
                                   !.subscriptions = get_active_subscriptions,
                                   !.permits = MaxConcurrentChecks]
    /\ tasks' = [s \in SubIds |->
                    IF s \in get_active_subscriptions
                    THEN [NoTask EXCEPT !.pc = "wait",
                                        !.sub = [id |-> s,
                                                 feed_url |-> subscriptions[s].feed_url]]
                    ELSE NoTask]
    /\ UNCHANGED <<pipelineVars, ledgerVars, batches>>

\* Mutant: the tasks run without the semaphore.
Acquire_unbounded(s) ==
    /\ tasks[s].pc = "wait"
    /\ poll' = [poll EXCEPT !.permits = @ - 1]
    /\ tasks' = [tasks EXCEPT ![s].pc = "sleep"]
    /\ UNCHANGED <<pipelineVars, ledgerVars, batches>>

\* `async with semaphore:` entered; the task sleeps RATE_LIMIT_DELAY.
Acquire(s) ==
    /\ tasks[s].pc = "wait"
    /\ poll.permits > 0
    /\ poll' = [poll EXCEPT !.permits = @ - 1]
    /\ tasks' = [tasks EXCEPT ![s].pc = "sleep"]
    /\ UNCHANGED <<pipelineVars, ledgerVars, batches>>

\* The sleep is over: _check_single_subscription calls
\* check_subscription_for_new_episodes(sub['id'], sub['feed_url']).
TaskChecks(s) ==
    /\ tasks[s].pc = "sleep"
    /\ FreeOps # {}
    /\ ops' = [ops EXCEPT ![Lowest(FreeOps)] = CheckCall(s, tasks[s].sub.feed_url)]
    /\ tasks' = [tasks EXCEPT ![s].pc = "check", ![s].op = Lowest(FreeOps)]
    /\ UNCHANGED <<pipelineVars, subscriptions, feeds, ledger, lastCheck, poll, batches>>

\* The task is over: its result dict is what gather collects.
Finished(t, success, new_episodes, error) ==
    [t EXCEPT !.pc = "done",
              !.result = [success |-> success, new_episodes |-> new_episodes,
                          error |-> error]]

\* Mutant: the timestamp is written only after a check that fetched its feed.
TaskTouches_on_success(s) ==
    LET t == tasks[s]
        check_result == ops[t.op]
    IN  /\ t.pc = "check"
        /\ check_result.pc = "done"
        /\ subscriptions' = IF check_result.outcome = "ok"
                            THEN [subscriptions EXCEPT ![s].last_checked_at = "now"]
                            ELSE subscriptions
        /\ IF check_result.new_episode_ids # <<>>
           THEN /\ FreeBatches # {}
                /\ batches' = [batches EXCEPT ![Lowest(FreeBatches)] =
                      [NoBatch EXCEPT !.pc = "select", !.sub = s, !.k = 1,
                                      !.ids = check_result.new_episode_ids]]
                /\ tasks' = [tasks EXCEPT ![s].pc = "auto",
                                          ![s].batch = Lowest(FreeBatches)]
                /\ UNCHANGED poll
           ELSE /\ tasks' = [tasks EXCEPT ![s] =
                                Finished(t, TRUE, check_result.new_count, NULL)]
                /\ poll' = [poll EXCEPT !.permits = @ + 1]
                /\ UNCHANGED batches
        /\ UNCHANGED <<pipelineVars, feeds, ledger, ops, lastCheck>>

\* A check that leaves the semaphore before auto_process_episodes is entered.
TaskTouches_releases_first(s) ==
    LET t == tasks[s]
        check_result == ops[t.op]
    IN  /\ t.pc = "check"
        /\ check_result.pc = "done"
        /\ subscriptions' = [subscriptions EXCEPT ![s].last_checked_at = "now"]
        /\ IF check_result.new_episode_ids # <<>>
           THEN /\ FreeBatches # {}
                /\ batches' = [batches EXCEPT ![Lowest(FreeBatches)] =
                      [NoBatch EXCEPT !.pc = "select", !.sub = s, !.k = 1,
                                      !.ids = check_result.new_episode_ids]]
                /\ tasks' = [tasks EXCEPT ![s].pc = "auto",
                                          ![s].batch = Lowest(FreeBatches)]
                /\ poll' = [poll EXCEPT !.permits = @ + 1]
           ELSE /\ tasks' = [tasks EXCEPT ![s] =
                                Finished(t, TRUE, check_result.new_count, NULL)]
                /\ poll' = [poll EXCEPT !.permits = @ + 1]
                /\ UNCHANGED batches
        /\ UNCHANGED <<pipelineVars, feeds, ledger, ops, lastCheck>>

\* The check returned its dict: `await update_subscription(last_checked_at)`,
\* then either auto_process_episodes is entered or the task succeeds and
\* leaves the semaphore.
TaskTouches(s) ==
    LET t == tasks[s]
        check_result == ops[t.op]
    IN  /\ t.pc = "check"
        /\ check_result.pc = "done"
        /\ subscriptions' = [subscriptions EXCEPT ![s].last_checked_at = "now"]
        /\ IF check_result.new_episode_ids # <<>>
           THEN /\ FreeBatches # {}
                /\ batches' = [batches EXCEPT ![Lowest(FreeBatches)] =
                      [NoBatch EXCEPT !.pc = "select", !.sub = s, !.k = 1,
                                      !.ids = check_result.new_episode_ids]]
                /\ tasks' = [tasks EXCEPT ![s].pc = "auto",
                                          ![s].batch = Lowest(FreeBatches)]
                /\ UNCHANGED poll
           ELSE /\ tasks' = [tasks EXCEPT ![s] =
                                Finished(t, TRUE, check_result.new_count, NULL)]
                /\ poll' = [poll EXCEPT !.permits = @ + 1]
                /\ UNCHANGED batches
        /\ UNCHANGED <<pipelineVars, feeds, ledger, ops, lastCheck>>

\* Mutant: the exception leaves the task and gather re-raises it.
TouchRaises_escapes(s) ==
    LET t == tasks[s]
    IN  /\ t.pc = "check"
        /\ ops[t.op].pc = "done"
        /\ tasks' = [tasks EXCEPT ![s].pc = "raised"]
        /\ poll' = [poll EXCEPT !.pc = "raised", !.permits = @ + 1]
        /\ UNCHANGED <<pipelineVars, ledgerVars, batches>>

\* update_subscription raises: `except Exception` records the error.
TouchRaises(s) ==
    LET t == tasks[s]
    IN  /\ t.pc = "check"
        /\ ops[t.op].pc = "done"
        /\ tasks' = [tasks EXCEPT ![s] = Finished(t, FALSE, 0, "update_subscription failed")]
        /\ poll' = [poll EXCEPT !.permits = @ + 1]
        /\ UNCHANGED <<pipelineVars, ledgerVars, batches>>

\* auto_process_episodes returned or raised.
TaskAfterAuto(s) ==
    LET t == tasks[s]
    IN  /\ t.pc = "auto"
        /\ batches[t.batch].pc \in {"done", "raised"}
        /\ tasks' = [tasks EXCEPT ![s] =
              IF batches[t.batch].pc = "done"
              THEN Finished(t, TRUE, ops[t.op].new_count, NULL)
              ELSE Finished(t, FALSE, 0, "auto_process_episodes failed")]
        /\ poll' = [poll EXCEPT !.permits = @ + 1]
        /\ UNCHANGED <<pipelineVars, ledgerVars, batches>>

RECURSIVE Sum(_, _)
Sum(f, S) ==
    IF S = {} THEN 0
    ELSE LET x == CHOOSE y \in S : TRUE IN f[x] + Sum(f, S \ {x})

\* An aggregation loop that adds new_count in both branches of the result
\* dicts: the entries a failed check had found are counted too.
PollAggregates_counts_failed ==
    LET results == [s \in poll.subscriptions |-> tasks[s].result]
        succeeded == {s \in poll.subscriptions : results[s].success}
    IN  /\ poll.pc = "gather"
        /\ \A s \in poll.subscriptions : tasks[s].pc = "done"
        /\ poll' = [poll EXCEPT
              !.pc = "done",
              !.result = [total |-> Cardinality(poll.subscriptions),
                          checked |-> Cardinality(succeeded),
                          new_episodes |->
                              Sum([s \in poll.subscriptions |->
                                      ops[tasks[s].op].new_count],
                                  poll.subscriptions),
                          errors |-> Cardinality(poll.subscriptions \ succeeded)]]
        /\ UNCHANGED <<pipelineVars, ledgerVars, tasks, batches>>

\* gather returned: the aggregation loop over the result dicts.
PollAggregates ==
    LET results == [s \in poll.subscriptions |-> tasks[s].result]
        succeeded == {s \in poll.subscriptions : results[s].success}
    IN  /\ poll.pc = "gather"
        /\ \A s \in poll.subscriptions : tasks[s].pc = "done"
        /\ poll' = [poll EXCEPT
              !.pc = "done",
              !.result = [total |-> Cardinality(poll.subscriptions),
                          checked |-> Cardinality(succeeded),
                          new_episodes |-> Sum([s \in succeeded |-> results[s].new_episodes],
                                               succeeded),
                          errors |-> Cardinality(poll.subscriptions \ succeeded)]]
        /\ UNCHANGED <<pipelineVars, ledgerVars, tasks, batches>>

\* ======================================================= POST /episodes/url
\* create_episode with a fresh id, then process_episode is added as a
\* background task with request.url as its audio_path.
process_url(j, url) ==
    /\ ~Exists(j)
    /\ FreeRuns # {}
    /\ episodes' = [episodes EXCEPT ![j] = create_episode]
    /\ runs' = [runs EXCEPT ![Lowest(FreeRuns)] =
                   [NewRun(j, "submit") EXCEPT !.audio_path = url]]
    /\ UNCHANGED <<detached, resume, everCompleted, ledgerVars, pollVars>>

\* ============================================================== systems
vars == <<pipelineVars, ledgerVars, pollVars>>

InitPipeline ==
    /\ episodes = [j \in JobIds |-> NoRow]
    /\ runs = [r \in RunIds |-> NoRun]
    /\ detached = {}
    /\ resume = [q \in ReqIds |-> NoReq]
    /\ everCompleted = {}

\* No feed operation, poll or batch has started.
InitIdle ==
    /\ ledger = <<>>
    /\ ops = [o \in OpIds |-> NoOp]
    /\ lastCheck = [s \in SubIds |-> [done |-> FALSE, served |-> {}]]
    /\ poll = NoPoll
    /\ tasks = [s \in SubIds |-> NoTask]
    /\ batches = [b \in BatchIds |-> NoBatch]

Init ==
    /\ InitPipeline
    /\ InitIdle
    /\ subscriptions = [s \in SubIds |-> subscription_row(PublicUrl, TRUE)]
    /\ feeds = [s \in SubIds |-> [entries |-> <<>>, changes |-> 0]]

\* One Job, one process_episode invocation, steps that may raise; no resume.
NextOneRun ==
    \/ \E j \in SubmitIds : Submit(j)
    \/ \E r \in RunIds : StartDownload(r)
    \/ \E r \in RunIds : StartTranscription(r)
    \/ \E r \in RunIds : PollProgress(r)
    \/ \E t \in detached : ApplyDetached(t)
    \/ \E r \in RunIds : FinishTranscription(r)
    \/ \E r \in RunIds : StartDiarizing(r)
    \/ \E r \in RunIds : StartCleaning(r)
    \/ \E r \in RunIds : SaveTranscript(r)
    \/ \E r \in RunIds : StartSummarizing(r)
    \/ \E r \in RunIds : SaveSummary(r)
    \/ \E r \in RunIds : Complete(r)
    \/ \E r \in RunIds : Fail(r)

SpecOneRun == Init /\ [][NextOneRun]_vars

\* The same run with a polling loop that has no last turn, on an event loop
\* that keeps running the coroutine: every external call returns, and what
\* the transcription service answers is its own choice.
RunStep(r) ==
    \/ StartDownload(r) \/ StartTranscription(r)
    \/ PollProgress(r) \/ PollSaturated(r) \/ FinishTranscription(r)
    \/ StartDiarizing(r) \/ StartCleaning(r) \/ SaveTranscript(r)
    \/ StartSummarizing(r) \/ SaveSummary(r) \/ Complete(r) \/ Fail(r)

NextRunForever ==
    \/ NextOneRun
    \/ \E r \in RunIds : PollSaturated(r)

SpecRunForever ==
    Init /\ [][NextRunForever]_vars /\ \A r \in RunIds : WF_vars(RunStep(r))

\* The pipeline with the resume endpoint.
Next ==
    \/ NextOneRun
    \/ \E q \in ReqIds, j \in SubmitIds : ResumeRead(q, j)
    \/ \E q \in ReqIds : ResumeReset(q)
    \/ \E q \in ReqIds : ResumeLookup(q)

Spec == Init /\ [][Next]_vars

\* The ledger of one subscription under two feed operations.
\* Subscription s1 exists with a public feed URL; no entry is stored yet.
InitLedger ==
    /\ InitPipeline
    /\ InitIdle
    /\ subscriptions = [s \in SubIds |-> subscription_row(PublicUrl, TRUE)]
    /\ \E entries \in FeedUniverse :
          feeds = [s \in SubIds |-> [entries |-> IF s = "s1" THEN entries ELSE <<>>,
                                     changes |-> 0]]

NextLedger ==
    \/ \E o \in OpIds : StartCheck(o, "s1")
    \/ \E o \in OpIds : StartInitial(o, "s1")
    \/ \E o \in OpIds, limit \in {1, MaxFeedLen} : StartMore(o, "s1", limit)
    \/ \E o \in OpIds : FetchOk(o)
    \/ \E o \in OpIds : FetchRaises(o)
    \/ \E o \in OpIds : LoopCheck(o)
    \/ \E o \in OpIds : LoopCreate(o)
    \/ \E o \in OpIds : CheckReturns(o)
    \/ \E o \in OpIds : LoopMore(o)
    \/ \E o \in OpIds : MoreTruncates(o)
    \/ \E o \in OpIds : Store(o)
    \/ \E o \in OpIds : UpdateDate(o)
    \/ \E o \in OpIds : RepositoryRaises(o)
    \/ Republish("s1")

SpecLedger == InitLedger /\ [][NextLedger]_vars

\* One scheduled poll over subscriptions whose stored feed URL may be one the
\* guard rejects, with the pipeline run it starts: at most one feed carries
\* an entry the ledger does not hold.
PollFeeds == {<<>>, <<Entry("g1", 0, "audio")>>}

InitPoll ==
    /\ InitPipeline
    /\ InitIdle
    /\ subscriptions \in [SubIds -> {subscription_row(url, active) :
                                        url \in {PublicUrl, PrivateUrl},
                                        active \in BOOLEAN}]
    /\ \E served \in [SubIds -> PollFeeds] :
          /\ Cardinality({s \in SubIds : served[s] # <<>>}) <= 1
          /\ feeds = [s \in SubIds |-> [entries |-> served[s], changes |-> 0]]

NextPoll ==
    \/ PollStarts
    \/ \E s \in SubIds : Acquire(s)
    \/ \E s \in SubIds : TaskChecks(s)
    \/ \E o \in OpIds : FetchOk(o)
    \/ \E o \in OpIds : FetchRaises(o)
    \/ \E o \in OpIds : LoopCheck(o)
    \/ \E o \in OpIds : LoopCreate(o)
    \/ \E o \in OpIds : CheckReturns(o)
    \/ \E o \in OpIds : RepositoryRaises(o)
    \/ \E s \in SubIds : TaskTouches(s)
    \/ \E s \in SubIds : TouchRaises(s)
    \/ \E b \in BatchIds : AutoSelect(b)
    \/ \E b \in BatchIds : AutoDispatch(b)
    \/ \E b \in BatchIds : MarkProcessing(b)
    \/ \E b \in BatchIds : CreateJob(b)
    \/ \E b \in BatchIds : LinkJob(b)
    \/ \E b \in BatchIds : MarkCompleted(b)
    \/ \E b \in BatchIds : MarkFailed(b)
    \/ \E b \in BatchIds : BatchRaises(b)
    \/ \E s \in SubIds : TaskAfterAuto(s)
    \/ PollAggregates
    \/ \E r \in RunIds : StartDownload(r)
    \/ \E r \in RunIds : StartTranscription(r)
    \/ \E r \in RunIds : PollProgress(r)
    \/ \E t \in detached : ApplyDetached(t)
    \/ \E r \in RunIds : FinishTranscription(r)
    \/ \E r \in RunIds : StartDiarizing(r)
    \/ \E r \in RunIds : StartCleaning(r)
    \/ \E r \in RunIds : SaveTranscript(r)
    \/ \E r \in RunIds : StartSummarizing(r)
    \/ \E r \in RunIds : SaveSummary(r)
    \/ \E r \in RunIds : Complete(r)
    \/ \E r \in RunIds : Fail(r)

SpecPoll == InitPoll /\ [][NextPoll]_vars

\* A poll over subscriptions with public feed URLs, all active or all
\* inactive, each of which serves an entry the ledger has not seen.
InitPollAuto ==
    /\ InitPipeline
    /\ InitIdle
    /\ \E active \in BOOLEAN :
          subscriptions = [s \in SubIds |-> subscription_row(PublicUrl, active)]
    /\ feeds = [s \in SubIds |->
                  [entries |-> <<Entry("g1", 0, "audio")>>, changes |-> 0]]

SpecPollAuto == InitPollAuto /\ [][NextPoll]_vars

\* The same poll on an event loop that keeps running its ready tasks, with
\* services that answer: a step that can be taken is eventually taken.
SpecPollFair == SpecPoll /\ WF_vars(NextPoll)

\* The hand-off of new entries to the pipeline: a poll and manual checks of
\* one subscription whose active flag the user toggles meanwhile.  The
\* transcriptions complete at their first status poll.
InitHandoff ==
    /\ InitPipeline
    /\ InitIdle
    /\ subscriptions = [s \in SubIds |-> subscription_row(PublicUrl, s = "s1")]
    /\ feeds = [s \in SubIds |->
                   [entries |-> IF s = "s1" THEN <<Entry("g1", 0, "audio")>> ELSE <<>>,
                    changes |-> 0]]

NextHandoff ==
    \/ \E is_active \in BOOLEAN : SetActive("s1", is_active)
    \/ \E o \in OpIds : EndpointChecks(o, "s1")
    \/ \E o \in OpIds : EndpointResponds(o)
    \/ PollStarts
    \/ \E s \in SubIds : Acquire(s)
    \/ \E s \in SubIds : TaskChecks(s)
    \/ \E o \in OpIds : FetchOk(o)
    \/ \E o \in OpIds : FetchRaises(o)
    \/ \E o \in OpIds : LoopCheck(o)
    \/ \E o \in OpIds : LoopCreate(o)
    \/ \E o \in OpIds : CheckReturns(o)
    \/ \E s \in SubIds : TaskTouches(s)
    \/ \E s \in SubIds : TaskAfterAuto(s)
    \/ PollAggregates
    \/ \E b \in BatchIds : AutoSelect(b)
    \/ \E b \in BatchIds : AutoDispatch(b)
    \/ \E b \in BatchIds : MarkProcessing(b)
    \/ \E b \in BatchIds : CreateJob(b)
    \/ \E b \in BatchIds : LinkJob(b)
    \/ \E b \in BatchIds : MarkCompleted(b)
    \/ \E r \in RunIds : StartDownload(r)
    \/ \E r \in RunIds : StartTranscription(r)
    \/ \E r \in RunIds : FinishTranscription(r)
    \/ \E r \in RunIds : StartDiarizing(r)
    \/ \E r \in RunIds : StartCleaning(r)
    \/ \E r \in RunIds : SaveTranscript(r)
    \/ \E r \in RunIds : StartSummarizing(r)
    \/ \E r \in RunIds : SaveSummary(r)
    \/ \E r \in RunIds : Complete(r)
    \/ \E r \in RunIds : Fail(r)

SpecHandoff == InitHandoff /\ [][NextHandoff]_vars

\* The manual triggers on a ledger that already holds entries: process-batch
\* and reset-stuck requests with the batch runs they start.  The
\* transcriptions complete at their first status poll.
SomeEpisode(guid) == [guid |-> guid, publish_date |-> 0, audio_url |-> "audio"]
SeedStatuses == {"pending", "processing", "completed", "skipped", "failed"}
Requests == {Ids(n) : n \in {0, 1, 3, 19, 20}}

InitBatch ==
    /\ InitPipeline
    /\ subscriptions = [s \in SubIds |-> subscription_row(PublicUrl, TRUE)]
    /\ feeds = [s \in SubIds |-> [entries |-> <<>>, changes |-> 0]]
    /\ \E second \in SeedStatuses, other \in {"pending", "processing"} :
          ledger = <<ledger_row("s1", SomeEpisode("g1")),
                     [ledger_row("s1", SomeEpisode("g2")) EXCEPT !.status = second],
                     [ledger_row("s2", SomeEpisode("g1")) EXCEPT !.status = other]>>
    /\ ops = [o \in OpIds |-> NoOp]
    /\ lastCheck = [s \in SubIds |-> [done |-> FALSE, served |-> {}]]
    /\ poll = NoPoll
    /\ tasks = [s \in SubIds |-> NoTask]
    /\ batches = [b \in BatchIds |-> NoBatch]

NextBatch ==
    \/ \E b \in BatchIds, episode_ids \in Requests : BatchRequest(b, "s1", episode_ids)
    \/ \E b \in BatchIds : BatchReads(b)
    \/ \E b \in BatchIds : BatchMarks(b)
    \/ \E b \in BatchIds : ResetReads(b, "s1")
    \/ \E b \in BatchIds : ResetWrites(b)
    \/ \E b \in BatchIds : MarkProcessing(b)
    \/ \E b \in BatchIds : CreateJob(b)
    \/ \E b \in BatchIds : LinkJob(b)
    \/ \E b \in BatchIds : MarkCompleted(b)
    \/ \E b \in BatchIds : MarkFailed(b)
    \/ \E r \in RunIds : StartDownload(r)
    \/ \E r \in RunIds : StartTranscription(r)
    \/ \E r \in RunIds : FinishTranscription(r)
    \/ \E r \in RunIds : StartDiarizing(r)
    \/ \E r \in RunIds : StartCleaning(r)
    \/ \E r \in RunIds : SaveTranscript(r)
    \/ \E r \in RunIds : StartSummarizing(r)
    \/ \E r \in RunIds : SaveSummary(r)
    \/ \E r \in RunIds : Complete(r)
    \/ \E r \in RunIds : Fail(r)

SpecBatch == InitBatch /\ [][NextBatch]_vars

\* The same requests over a ledger of pending entries, on an event loop that
\* keeps running its ready tasks, with services that answer.
InitBatchFair ==
    /\ InitBatch
    /\ \A i \in DOMAIN ledger : ledger[i].status = "pending"

SpecBatchFair == InitBatchFair /\ [][NextBatch]_vars /\ WF_vars(NextBatch)

\* Recovery of a stuck entry through the poll: the ledger holds an entry of
\* "s1" left processing with no linked Job, reset-stuck is called, and the
\* scheduled poll runs after the reset has been written.  The feed of "s1"
\* still carries that entry, and one entry the ledger does not hold.
ResetDone == \E b \in BatchIds : batches[b].pc = "reset_done" /\ batches[b].response > 0

InitRecover ==
    /\ InitPipeline
    /\ subscriptions = [s \in SubIds |-> subscription_row(PublicUrl, TRUE)]
    /\ feeds = [s \in SubIds |->
                   [entries |-> IF s = "s1"
                                THEN <<Entry("g1", 0, "audio"), Entry("g2", 0, "audio")>>
                                ELSE <<>>,
                    changes |-> 0]]
    /\ ledger = <<[ledger_row("s1", SomeEpisode("g1")) EXCEPT !.status = "processing"]>>
    /\ ops = [o \in OpIds |-> NoOp]
    /\ lastCheck = [s \in SubIds |-> [done |-> FALSE, served |-> {}]]
    /\ poll = NoPoll
    /\ tasks = [s \in SubIds |-> NoTask]
    /\ batches = [b \in BatchIds |-> NoBatch]

NextRecover ==
    \/ \E b \in BatchIds : ResetReads(b, "s1")
    \/ \E b \in BatchIds : ResetWrites(b)
    \/ ResetDone /\ PollStarts
    \/ \E s \in SubIds : Acquire(s)
    \/ \E s \in SubIds : TaskChecks(s)
    \/ \E o \in OpIds : FetchOk(o)
    \/ \E o \in OpIds : LoopCheck(o)
    \/ \E o \in OpIds : LoopCreate(o)
    \/ \E o \in OpIds : CheckReturns(o)
    \/ \E s \in SubIds : TaskTouches(s)
    \/ \E b \in BatchIds : AutoSelect(b)
    \/ \E b \in BatchIds : AutoDispatch(b)
    \/ \E b \in BatchIds : MarkProcessing(b)
    \/ \E b \in BatchIds : CreateJob(b)
    \/ \E b \in BatchIds : LinkJob(b)
    \/ \E b \in BatchIds : MarkCompleted(b)
    \/ \E s \in SubIds : TaskAfterAuto(s)
    \/ PollAggregates
    \/ \E r \in RunIds : StartDownload(r)
    \/ \E r \in RunIds : StartTranscription(r)
    \/ \E r \in RunIds : FinishTranscription(r)
    \/ \E r \in RunIds : StartDiarizing(r)
    \/ \E r \in RunIds : StartCleaning(r)
    \/ \E r \in RunIds : SaveTranscript(r)
    \/ \E r \in RunIds : StartSummarizing(r)
    \/ \E r \in RunIds : SaveSummary(r)
    \/ \E r \in RunIds : Complete(r)
    \/ \E r \in RunIds : Fail(r)

SpecRecover == InitRecover /\ [][NextRecover]_vars

\* The network requests of the system: Jobs submitted by URL, and manual
\* checks of subscriptions of which "s2" stores a private feed URL.
InitGuard ==
    /\ InitPipeline
    /\ InitIdle
    /\ subscriptions = [s \in SubIds |->
           subscription_row(IF s = "s1" THEN PublicUrl ELSE PrivateUrl, TRUE)]
    /\ feeds = [s \in SubIds |-> [entries |-> <<Entry("g1", 0, "audio")>>, changes |-> 0]]

NextGuard ==
    \/ \E j \in JobIds, url \in {PublicUrl, PrivateUrl} : process_url(j, url)
    \/ \E o \in OpIds, s \in SubIds : StartCheck(o, s)
    \/ \E o \in OpIds : FetchOk(o)
    \/ \E o \in OpIds : FetchRaises(o)
    \/ \E o \in OpIds : LoopCheck(o)
    \/ \E o \in OpIds : LoopCreate(o)
    \/ \E o \in OpIds : CheckReturns(o)
    \/ \E r \in RunIds : StartDownload(r)
    \/ \E r \in RunIds : StartTranscription(r)
    \/ \E r \in RunIds : FinishTranscription(r)
    \/ \E r \in RunIds : StartDiarizing(r)
    \/ \E r \in RunIds : StartCleaning(r)
    \/ \E r \in RunIds : SaveTranscript(r)
    \/ \E r \in RunIds : StartSummarizing(r)
    \/ \E r \in RunIds : SaveSummary(r)
    \/ \E r \in RunIds : Complete(r)
    \/ \E r \in RunIds : Fail(r)

SpecGuard == InitGuard /\ [][NextGuard]_vars

\* Subscribe requests with their initial fetch: nobody follows a podcast
\* yet; a request names a public or a private feed URL and no artwork, a
\* cover on an unlisted host, or a URL that is no picture.
CoverArt == ArtworkUrl("https", <<"cdn", "example", "com">>, <<"shows">>, "jpg")
NoPicture == ArtworkUrl("https", <<"cdn", "example", "com">>, <<"shows">>, "xml")
ArtworkRequests == {<<>>, <<CoverArt>>, <<NoPicture>>}

InitSubscribe ==
    /\ InitPipeline
    /\ InitIdle
    /\ subscriptions = [s \in SubIds |-> NoSubscription]
    /\ feeds = [s \in SubIds |->
                  [entries |-> <<Entry("g2", 2, "audio"), Entry("g1", 1, "audio")>>,
                   changes |-> 0]]

NextSubscribe ==
    \/ \E o \in OpIds, s \in SubIds, feed_url \in {PublicUrl, PrivateUrl},
          artwork_url \in ArtworkRequests :
          create_subscription(o, s, feed_url, artwork_url)
    \/ \E o \in OpIds : FetchOk(o)
    \/ \E o \in OpIds : FetchRaises(o)
    \/ \E o \in OpIds : Store(o)
    \/ \E o \in OpIds : UpdateDate(o)

SpecSubscribe == InitSubscribe /\ [][NextSubscribe]_vars

\* The guard and the feed fetcher as functions: one call with its arguments
\* drawn from the sets below, and the step that returns its value.
Url(scheme, userinfo, host) == [scheme |-> scheme, userinfo |-> userinfo, host |-> host]

FeedUrls ==
    {Url("https", "", <<"feeds", "example", "com">>),
     Url("https", "user:secret", <<"feeds", "example", "com">>),
     Url("http", "user:secret", <<"10", "0", "0", "5">>),
     Url("ftp", "", <<"feeds", "example", "com">>),
     Url("file", "", <<>>),
     Url("http", "", <<>>),
     Url("http", "", <<"localhost">>),
     Url("http", "", <<"127", "0", "0", "1">>),
     Url("http", "", <<"0", "0", "0", "0">>),
     Url("http", "", <<"::1">>),
     Url("http", "", <<"10", "0", "0", "5">>),
     Url("http", "", <<"11", "0", "0", "5">>),
     Url("http", "", <<"172", "16", "0", "1">>),
     Url("http", "", <<"172", "31", "0", "1">>),
     Url("http", "", <<"172", "32", "0", "1">>),
     Url("http", "", <<"192", "168", "0", "1">>),
     Url("http", "", <<"192", "169", "0", "1">>)}

ArtworkUrls ==
    {<<>>, <<EmptyUrl>>, <<CoverArt>>, <<NoPicture>>,
     <<ArtworkUrl("https", <<"i", "scdn", "co">>, <<"image">>, "")>>,
     <<ArtworkUrl("https", <<"i", "scdn", "co">>, <<"ab67">>, "")>>,
     <<ArtworkUrl("http", <<"d", "radioline", "fr">>, <<>>, "xml")>>,
     <<ArtworkUrl("ftp", <<"i", "scdn", "co">>, <<"image">>, "jpg")>>,
     <<ArtworkUrl("https", <<"is9-ssl", "mzstatic", "com">>, <<>>, "")>>,
     <<ArtworkUrl("https", <<"cdn", "example", "com">>, <<"Images">>, "")>>,
     <<ArtworkUrl("https", <<"cdn", "example", "com">>, <<>>, "JPG")>>,
     <<ArtworkUrl("http", <<"10", "0", "0", "5">>, <<"images">>, "jpg")>>,
     <<ArtworkUrl("http", <<"localhost">>, <<"images">>, "jpg")>>}

Limits == {NoLimit, 0, 1, 2}

Call(function, args) == [NoOp EXCEPT !.kind = function, !.pc = "call", !.args = args]

\* Entries as feedparser hands them over: enclosures and media_content
\* items of several types, with and without a URL.
ParsedEntries ==
    {Entry("g1", 2, "audio"),
     FeedEntry("g2", 1, <<Enclosure("image/jpeg", "cover")>>, <<>>),
     FeedEntry(NULL, 0, <<>>, <<Media("audio/mp4", "media")>>),
     FeedEntry("g4", 1, <<Enclosure("audio/mpeg", NULL),
                          Enclosure("audio/mpeg", "audio2")>>, <<>>),
     FeedEntry("g5", 0, <<Enclosure("video/mp4", "clip"),
                          Enclosure("audio/mpeg", "audio")>>,
               <<Media("audio/mpeg", "media")>>),
     FeedEntry("g6", 0, <<Enclosure("audio/mpeg", "")>>,
               <<Media("image/jpeg", "cover"), Media("audio/mpeg", "media")>>)}

Calls ==
    {Call("validate_feed_url", <<url>>) : url \in FeedUrls}
    \cup {Call("validate_artwork_url", <<url>>) : url \in ArtworkUrls}
    \cup {Call("fetch_rss_feed", <<entries, limit>>) :
             entries \in FeedUniverse, limit \in Limits}
    \cup {Call("fetch_rss_feed", <<entries, NoLimit>>) :
             entries \in SeqsUpTo(ParsedEntries, MaxFeedLen)}

InitCalls ==
    /\ InitPipeline
    /\ ledger = <<>>
    /\ ops \in [OpIds -> Calls \cup {NoOp}]
    /\ ops[1] # NoOp /\ \A o \in OpIds \ {1} : ops[o] = NoOp
    /\ lastCheck = [s \in SubIds |-> [done |-> FALSE, served |-> {}]]
    /\ poll = NoPoll
    /\ tasks = [s \in SubIds |-> NoTask]
    /\ batches = [b \in BatchIds |-> NoBatch]
    /\ subscriptions = [s \in SubIds |-> NoSubscription]
    /\ feeds = [s \in SubIds |-> [entries |-> <<>>, changes |-> 0]]

Returns(o, function, value) ==
    /\ ops[o].kind = function /\ ops[o].pc = "call"
    /\ ops' = [ops EXCEPT ![o].pc = "done", ![o].result = <<value>>]
    /\ UNCHANGED <<pipelineVars, pollVars, subscriptions, feeds, ledger, lastCheck>>

ReturnsValid(o) ==
    Returns(o, "validate_feed_url", validate_feed_url(ops[o].args[1]))

ReturnsArtwork(o) ==
    Returns(o, "validate_artwork_url", validate_artwork_url(ops[o].args[1]))

ReturnsEpisodes(o) ==
    Returns(o, "fetch_rss_feed", fetch_rss_feed(ops[o].args[1], ops[o].args[2]))

NextCalls ==
    \/ \E o \in OpIds : ReturnsValid(o)
    \/ \E o \in OpIds : ReturnsArtwork(o)
    \/ \E o \in OpIds : ReturnsEpisodes(o)

SpecCalls == InitCalls /\ [][NextCalls]_vars

\* The polling loop of transcribe_audio as a function of the measured
\* duration: each turn reports simulated_progress(elapsed, duration), then
\* sleeps POLL_SLEEP seconds; the status GET before the next report takes
\* no time or some.
MaxCallbacks == 6
MeasuredDurations == {0, 1, 6, 12, 15, 60, 600}
Latencies == {0, 2}

InitProgress ==
    /\ InitPipeline
    /\ ledger = <<>>
    /\ \E duration \in MeasuredDurations :
          ops = [o \in OpIds |->
                   IF o = 1 THEN Call("transcribe_audio", <<duration>>) ELSE NoOp]
    /\ lastCheck = [s \in SubIds |-> [done |-> FALSE, served |-> {}]]
    /\ poll = NoPoll
    /\ tasks = [s \in SubIds |-> NoTask]
    /\ batches = [b \in BatchIds |-> NoBatch]
    /\ subscriptions = [s \in SubIds |-> NoSubscription]
    /\ feeds = [s \in SubIds |-> [entries |-> <<>>, changes |-> 0]]

ReportsProgress(o) ==
    LET f == ops[o]
    IN  /\ f.kind = "transcribe_audio" /\ f.pc = "call"
        /\ Len(f.result) < MaxCallbacks
        /\ \E latency \in Latencies :
              ops' = [ops EXCEPT ![o] =
                 [f EXCEPT !.result = Append(@, simulated_progress(f.elapsed, f.args[1])),
                           !.elapsed = @ + POLL_SLEEP + latency]]
        /\ UNCHANGED <<pipelineVars, pollVars, subscriptions, feeds, ledger, lastCheck>>

\* The service answers completed: the loop ends.
TranscriptReady(o) ==
    /\ ops[o].kind = "transcribe_audio" /\ ops[o].pc = "call"
    /\ ops' = [ops EXCEPT ![o].pc = "done"]
    /\ UNCHANGED <<pipelineVars, pollVars, subscriptions, feeds, ledger, lastCheck>>

NextProgress ==
    \/ \E o \in OpIds : ReportsProgress(o)
    \/ \E o \in OpIds : TranscriptReady(o)

SpecProgress == InitProgress /\ [][NextProgress]_vars

\* ====================================================== speaker rename
\* A transcript segment as transcribe_audio and apply_speaker_names leave it;
\* speaker and speaker_label are NULL when absent.
Segment(start, end, text, speaker, speaker_label) ==
    [start |-> start, end |-> end, text |-> text, speaker |-> speaker,
     speaker_label |-> speaker_label]

\* json.dumps / json.loads of a list of segments: the text is not empty and
\* carries the list.
json_dumps(data) == [empty |-> FALSE, json |-> data]
json_loads(text) == text.json

\* `seg.get('speaker_label') or seg.get('speaker')`
label_of(seg) == IF truthy(seg.speaker_label) THEN seg.speaker_label ELSE seg.speaker

\* The regenerated cleaned transcript: one part per segment.
cleaned_parts(data) ==
    [i \in DOMAIN data |->
        IF truthy(data[i].speaker) THEN <<data[i].speaker, data[i].text>>
        ELSE <<data[i].text>>]

\* A row of the episodes table as the rename reads it; an optional value is
\* <<>> (no row, SQL NULL) or <<value>>.
TranscriptRow(status, progress, checkpoint_stage, transcript) ==
    [status |-> status, progress |-> progress, checkpoint_stage |-> checkpoint_stage,
     transcript |-> transcript, cleaned_transcript |-> <<>>]

\* The empty string in a text column.
EmptyText == [empty |-> TRUE, json |-> <<>>]

\* update_episode_speakers that looks only at the speaker field.
update_episode_speakers_by_name(row, speaker_map) ==
    IF row = <<>> \/ row[1].transcript = <<>> \/ row[1].transcript = <<EmptyText>>
    THEN [ok |-> FALSE, row |-> row]
    ELSE LET transcript_data == json_loads(row[1].transcript[1])
             renamed == [i \in DOMAIN transcript_data |->
                           LET seg == transcript_data[i]
                           IN  IF truthy(seg.speaker) /\ seg.speaker \in DOMAIN speaker_map
                               THEN [seg EXCEPT !.speaker = speaker_map[seg.speaker]]
                               ELSE seg]
         IN  [ok |-> TRUE,
              row |-> <<[row[1] EXCEPT
                            !.transcript = <<json_dumps(renamed)>>,
                            !.cleaned_transcript = <<cleaned_parts(renamed)>>]>>]

\* The SELECT, the substitution, the regenerated cleaned transcript and the
\* UPDATE of transcript, cleaned_transcript and updated_at.
update_episode_speakers(row, speaker_map) ==
    IF row = <<>> \/ row[1].transcript = <<>> \/ row[1].transcript = <<EmptyText>>
    THEN [ok |-> FALSE, row |-> row]
    ELSE LET transcript_data == json_loads(row[1].transcript[1])
             renamed == [i \in DOMAIN transcript_data |->
                           LET seg == transcript_data[i]
                               label == label_of(seg)
                           IN  IF truthy(label) /\ label \in DOMAIN speaker_map
                               THEN [seg EXCEPT !.speaker = speaker_map[label]]
                               ELSE seg]
         IN  [ok |-> TRUE,
              row |-> <<[row[1] EXCEPT
                            !.transcript = <<json_dumps(renamed)>>,
                            !.cleaned_transcript = <<cleaned_parts(renamed)>>]>>]

\* Segments of a two-speaker episode, before and after a first rename.
Segments ==
    {Segment(0, 4, "hello", "A", NULL),
     Segment(4, 9, "welcome", "B", NULL),
     Segment(9, 9, "hm", NULL, NULL),
     Segment(0, 4, "hello", "Ann", "A"),
     Segment(4, 9, "welcome", "Bob", "B")}

MaxSegments == 2

SpeakerMaps ==
    {<<>>,
     [l \in {"A"} |-> "Ann"],
     [l \in {"A", "B"} |-> IF l = "A" THEN "Bob" ELSE "Ann"],
     [l \in {"Ann"} |-> "Anna"],
     [l \in {"C"} |-> "Carl"]}

TranscriptRows ==
    {<<>>,
     <<TranscriptRow(DOWNLOADING, 10, NULL, <<>>)>>,
     <<TranscriptRow(FAILED, 0, NULL, <<EmptyText>>)>>}
    \cup {<<TranscriptRow(st[1], st[2], st[3], <<json_dumps(data)>>)>> :
             st \in {<<COMPLETED, 100, "summarized">>, <<SUMMARIZING, 85, "transcribed">>},
             data \in SeqsUpTo(Segments, MaxSegments)}

InitSpeakers ==
    /\ InitPipeline
    /\ ledger = <<>>
    /\ \E row \in TranscriptRows, speaker_map \in SpeakerMaps :
          ops = [o \in OpIds |->
                   IF o = 1 THEN Call("update_episode_speakers", <<row, speaker_map>>)
                   ELSE NoOp]
    /\ lastCheck = [s \in SubIds |-> [done |-> FALSE, served |-> {}]]
    /\ poll = NoPoll
    /\ tasks = [s \in SubIds |-> NoTask]
    /\ batches = [b \in BatchIds |-> NoBatch]
    /\ subscriptions = [s \in SubIds |-> NoSubscription]
    /\ feeds = [s \in SubIds |-> [entries |-> <<>>, changes |-> 0]]

ReturnsRenamed(o) ==
    Returns(o, "update_episode_speakers",
            update_episode_speakers(ops[o].args[1], ops[o].args[2]))

NextSpeakers == \E o \in OpIds : ReturnsRenamed(o)

SpecSpeakers == InitSpeakers /\ [][NextSpeakers]_vars


\* ============================================================== claims
Row(j) == episodes[j]

Artifacts(row) ==
    <<row.checkpoint_stage, row.transcript, row.cleaned_transcript, row.summary>>

\* The step taken is run r ending in the except branch.
FailsNow(r) ==
    /\ runs[r].pc \notin {"unborn", "done"}
    /\ runs'[r].pc = "done"
    /\ runs'[r].raised # NULL

\* The (stage, progress) a main-path step of process_episode leaves behind when
\* the run arrives at the given position.
Scenario(pc) ==
    CASE pc = "downloading" -> <<DOWNLOADING, 10>>
      [] pc = "transcribing" -> <<TRANSCRIBING, 30>>
      [] pc = "transcribed" -> <<TRANSCRIBING, 55>>
      [] pc = "diarizing" -> <<DIARIZING, 60>>
      [] pc = "cleaning" -> <<CLEANING, 70>>
      [] pc = "summarizing" -> <<SUMMARIZING, 85>>
      [] pc = "done" -> <<COMPLETED, 100>>
      [] OTHER -> <<NULL, 0>>

NoRunRaised == \A r \in RunIds : runs[r].raised = NULL

\* C1: in a run in which no step fails, the main path writes
\* downloading(10), transcribing(30), transcribing(55), diarizing(60),
\* cleaning(70), summarizing(85), completed(100) in that order, and no write
\* applied to the Job row (the detached status writes included) moves the stage
\* backward or lowers the progress.
C1_ForwardOnly ==
    [][ NoRunRaised' =>
          /\ \A r \in RunIds :
               (Active(r) /\ runs'[r].pc # runs[r].pc
                  /\ Scenario(runs'[r].pc)[1] # NULL)
                 => <<episodes'[runs[r].job].status,
                      episodes'[runs[r].job].progress>> = Scenario(runs'[r].pc)
          /\ \A j \in JobIds :
               Exists(j) =>
                 /\ StageRank(Row(j).status') >= StageRank(Row(j).status)
                 /\ Row(j).progress' >= Row(j).progress ]_vars

\* C2: the write that marks the Job failed leaves checkpoint marker,
\* transcript, cleaned transcript and summary as they were; when the run fails
\* during summarization the transcript is there afterwards, and the checkpoint
\* is "transcribed" when no other run was ever started on the Job.
C2_FailureKeepsArtifacts ==
    [][ \A r \in RunIds :
          FailsNow(r) =>
            LET j == runs[r].job IN
            /\ Artifacts(Row(j))' = Artifacts(Row(j))
            /\ runs[r].pc = "summarizing" =>
                 /\ Row(j).transcript' # NoBlob
                 /\ Row(j).cleaned_transcript' # NoBlob
                 /\ Row(j).checkpoint_stage' \in
                      {"transcribed", "summarized", "completed"}
                 /\ (\A o \in RunIds \ {r} : runs[o].pc = "unborn") =>
                      /\ Row(j).checkpoint_stage' = "transcribed"
                      /\ Row(j).transcript' = r ]_vars

C2_Witness ==
    \E r \in RunIds :
      /\ runs[r].pc = "done"
      /\ runs[r].raised = "summarization failed"
      /\ Row(runs[r].job).status = FAILED
      /\ Row(runs[r].job).checkpoint_stage = "transcribed"
      /\ Row(runs[r].job).transcript = r

C4_TerminalIsFinal ==
    [][ \A j \in JobIds :
          (Exists(j) /\ Row(j).status \in {COMPLETED, FAILED}) =>
            \/ <<Row(j).status, Row(j).progress, Row(j).status_message,
                 Row(j).checkpoint_stage>>'
               = <<Row(j).status, Row(j).progress, Row(j).status_message,
                   Row(j).checkpoint_stage>>
            \/ \E q \in ReqIds : resume[q].job = j /\ ResumeReset(q) ]_vars

\* C5: at any time at most one process_episode run is mutating a given Job.
C5_SingleRunner ==
    \A j \in JobIds :
      Cardinality({r \in RunIds : Active(r) /\ runs[r].job = j}) <= 1

\* C6: a resume request that found the Job failed writes stage pending with
\* progress 0 before it starts the new run, and the run a resume starts begins
\* at audio acquisition (its first write is downloading, 10) whatever the
\* checkpoint marker says.
C6_ResumeRestarts ==
    [][ /\ \A q \in ReqIds :
             (resume[q].pc = "reset" /\ resume'[q].pc # "reset") =>
               /\ Row(resume[q].job).status' = PENDING
               /\ Row(resume[q].job).progress' = 0
        /\ \A r \in RunIds :
             (runs[r].pc = "unborn" /\ runs'[r].pc # "unborn"
                /\ runs'[r].origin = "resume") =>
               /\ runs'[r].pc = "start"
               /\ resume[runs'[r].by].sawFailed => resume[runs'[r].by].didReset
        /\ \A r \in RunIds :
             (runs[r].pc = "start" /\ runs'[r].pc # "start") =>
               /\ runs'[r].pc = "downloading"
               /\ Row(runs[r].job).status' = DOWNLOADING
               /\ Row(runs[r].job).progress' = 10 ]_vars

C6_Witness ==
    \E r \in RunIds :
      /\ runs[r].origin = "resume"
      /\ runs[r].pc = "downloading"
      /\ resume[runs[r].by].didReset
      /\ Row(runs[r].job).status = DOWNLOADING
      /\ Row(runs[r].job).checkpoint_stage = "transcribed"

\* C7: checkpoint "transcribed" implies transcript and cleaned transcript are
\* persisted; "summarized" implies summary and transcript are persisted;
\* "completed" implies the summary is persisted and stage completed was written.
C7_CheckpointIsEvidence ==
    \A j \in JobIds :
      Exists(j) =>
        /\ Row(j).checkpoint_stage = "transcribed" =>
             Row(j).transcript # NoBlob /\ Row(j).cleaned_transcript # NoBlob
        /\ Row(j).checkpoint_stage = "summarized" =>
             Row(j).summary # NoBlob /\ Row(j).transcript # NoBlob
        /\ Row(j).checkpoint_stage = "completed" =>
             Row(j).summary # NoBlob /\ j \in everCompleted

C7_Witness ==
    \E j \in JobIds, r \in RunIds :
      /\ Exists(j)
      /\ runs[r].origin = "resume"
      /\ Row(j).checkpoint_stage = "transcribed"
      /\ Row(j).transcript = r
      /\ Row(j).summary \notin {NoBlob, r}

C9_RecheckFindsNothing ==
    \A o \in OpIds :
        (/\ ops[o].kind = "check" /\ ops[o].pc = "done" /\ ops[o].outcome = "ok"
         /\ ops[o].prev.done
         /\ ops[o].prev.served = ops[o].served)
            => ops[o].new_count = 0 /\ ops[o].stored = 0

\* The feed fetch of the subscription's poll task failed: the guard rejected
\* the URL, or the download or the parser raised.
FetchFailed(s) ==
    /\ tasks[s].pc = "done"
    /\ ops[tasks[s].op].outcome \in {"ValueError", "HTTPError"}

\* C10: in the result of a poll, every polled subscription whose feed fetch
\* failed is counted in errors and not in checked, and every subscription
\* whose feed was fetched (and whose task raised nothing afterwards) is
\* counted in checked: with one private-IP feed URL among N active
\* subscriptions the poll returns errors = 1 and checked = N - 1.
C10_FailedFetchCountsAsError ==
    poll.pc = "done" =>
        LET fetched == {s \in poll.subscriptions :
                            ~FetchFailed(s) /\ tasks[s].result.error = NULL}
        IN  /\ poll.result.checked = Cardinality(fetched)
            /\ poll.result.errors = Cardinality(poll.subscriptions \ fetched)

Holding == {s \in SubIds : tasks[s].pc \in {"sleep", "check", "auto"}}

\* C12: at every moment of a poll at most MAX_CONCURRENT_CHECKS tasks are
\* between acquiring and releasing the semaphore, hence at most that many
\* feed fetches are in flight, and a task starts its fetch only from the
\* rate-limit sleep it takes while holding its slot.
C12_BoundedChecks ==
    /\ [](/\ Cardinality(Holding) <= MaxConcurrentChecks
          /\ Cardinality({o \in OpIds : ops[o].pc = "fetch"}) <= MaxConcurrentChecks
          /\ poll.pc = "gather" =>
                poll.permits = MaxConcurrentChecks - Cardinality(Holding))
    /\ [][\A s \in SubIds :
            (tasks'[s].pc = "check" /\ tasks[s].pc # "check")
                => tasks[s].pc = "sleep" /\ s \in Holding]_vars

\* One task is fetching its feed in the only slot while another waits.
C12_Witness ==
    \E s, w \in SubIds :
        /\ tasks[s].pc = "check" /\ ops[tasks[s].op].pc = "fetch"
        /\ tasks[w].pc = "wait"
        /\ poll.permits = 0

\* C13: every subscription a poll has checked has its last-checked timestamp
\* written, whether the check found entries, found none, had its URL
\* rejected by the guard or failed in the fetch or anywhere else inside the
\* check (the one exception is the timestamp write itself raising).
C13_AlwaysTouched ==
    \A s \in SubIds :
        (/\ tasks[s].pc \in {"auto", "done"}
         /\ tasks[s].result.error # "update_subscription failed")
            => subscriptions[s].last_checked_at = "now"

\* A finished poll with a task whose URL the guard rejected and a task whose
\* check raised after the fetch.
C13_Witness ==
    /\ poll.pc = "done"
    /\ \E s \in poll.subscriptions :
          /\ ops[tasks[s].op].outcome = "ValueError"
          /\ subscriptions[s].last_checked_at = "now"
    /\ \E s \in poll.subscriptions : ops[tasks[s].op].outcome = "Exception"

\* C14: new ledger entries are handed to auto_process_episodes only while the
\* subscription's active flag is set; entries found for a subscription that
\* was deactivated after the poll loaded its list, or after the check
\* endpoint read its row, are not handed over.
C14_HandoffOnlyWhenActive ==
    [][\A b \in BatchIds :
          (batches[b].pc = "idle" /\ batches'[b].pc = "select")
              => subscriptions[batches'[b].sub].is_active]_vars

\* The frame is a process-batch request that was turned down for its size.
RejectedForSize(f) ==
    f.pc = "rejected" /\ f.response \in {"400 maximum", "400 none selected"}

\* C15: a process-batch request is rejected for its size exactly when its id
\* list is empty or longer than 19 (a list of 19 is looked up), and a
\* rejected request has no side effect: the step changes no ledger entry,
\* creates no Job, starts no run, and the request does nothing afterwards.
C15_SizeRejectionsAreInert ==
    /\ [](\A b \in BatchIds :
            /\ RejectedForSize(batches[b]) =>
                  Len(batches[b].ids) = 0 \/ Len(batches[b].ids) > 19
            /\ batches[b].pc = "lookup" =>
                  Len(batches[b].ids) >= 1 /\ Len(batches[b].ids) <= 19)
    /\ [][\A b \in BatchIds :
            /\ (batches[b].pc = "idle" /\ RejectedForSize(batches'[b]))
                  => UNCHANGED <<ledger, episodes, runs, detached>>
            /\ RejectedForSize(batches[b]) => batches'[b] = batches[b]]_vars

\* One request with 20 ids was rejected and one with 19 ids is being looked up.
C15_Witness ==
    \E b, c \in BatchIds :
        /\ RejectedForSize(batches[b]) /\ Len(batches[b].ids) = 20
        /\ batches[c].pc = "lookup" /\ Len(batches[c].ids) = 19

\* The requested entries of the target subscription that are pending now.
Qualifying(f) ==
    {i \in DOMAIN ledger \cap Range(f.ids) :
        ledger[i].subscription_id = f.sub /\ ledger[i].status = "pending"}

\* The frame belongs to a batch request between its lookup and its last entry.
InBatchRun(f) == f.pc \in {"mark", "create", "link", "run"}

\* C16: a process-batch request selects exactly the requested entries that
\* belong to the target subscription and are pending when it reads them; it
\* is rejected with nothing changed when there is none; it marks exactly the
\* selected entries processing; and every later step of its run changes the
\* status or the Job link of no entry but the selected one it is working on.
C16_BatchTouchesOnlyQualifying ==
    [][\A b \in BatchIds :
         LET f == batches[b]
             g == batches'[b]
         IN  /\ (f.pc = "lookup" /\ g # f) =>
                   /\ UNCHANGED <<ledger, episodes, runs>>
                   /\ IF Qualifying(f) = {}
                      THEN g.pc = "rejected" /\ g.eps = <<>>
                      ELSE g.pc = "claim" /\ Range(g.eps) = Qualifying(f)
             /\ (f.pc = "claim" /\ g # f) =>
                   \A i \in DOMAIN ledger :
                       ledger'[i] = IF i \in Range(f.eps)
                                    THEN [ledger[i] EXCEPT !.status = "processing"]
                                    ELSE ledger[i]
             /\ (InBatchRun(f) /\ g # f) =>
                   \A i \in DOMAIN ledger :
                       ledger'[i] # ledger[i] => i = f.eps[f.k]]_vars

\* A request for entries 1..3 selected entry 1 alone (entry 2 is not pending,
\* entry 3 belongs to the other subscription), marked it and linked its Job,
\* while entries 2 and 3 kept their status and have no Job.
C16_Witness ==
    \E b \in BatchIds :
        /\ batches[b].pc = "run" /\ batches[b].eps = <<1>>
        /\ ledger[1].status = "processing" /\ ledger[1].episode_id # NULL
        /\ ledger[2].status = "completed" /\ ledger[2].episode_id = NULL
        /\ ledger[3].status = "pending" /\ ledger[3].episode_id = NULL

\* The pipeline runs that batch run b started.
RunsOf(b) == {r \in RunIds : runs[r].origin = "subscription" /\ runs[r].by = b}

\* C17: within one batch run the entries are processed one after another: at
\* most one pipeline run started by the batch is in flight, and the Job of the
\* next entry is created only when every run the batch started before has
\* ended with its Job completed or failed.
C17_BatchIsSequential ==
    /\ [](\A b \in BatchIds : Cardinality({r \in RunsOf(b) : Active(r)}) <= 1)
    /\ [][\A b \in BatchIds :
            (batches[b].pc = "create" /\ batches'[b].pc = "link") =>
                \A r \in RunsOf(b) :
                    /\ runs[r].pc = "done"
                    /\ episodes[runs[r].job].status \in {COMPLETED, FAILED}]_vars

\* A batch of two entries has finished the run of its first entry and the
\* run of its second entry is in flight.
C17_Witness ==
    \E b \in BatchIds :
        /\ batches[b].pc = "run" /\ batches[b].k = 2
        /\ \E r1, r2 \in RunsOf(b) : runs[r1].pc = "done" /\ Active(r2)

\* C18: a ledger entry the batch coordinator has finished (completed or
\* failed, with a linked Job) is completed if and only if its Job ended with
\* stage completed, and failed when its Job ended with stage failed.
C18_EntryMatchesJob ==
    \A i \in DOMAIN ledger :
        (ledger[i].episode_id # NULL /\ ledger[i].status \in {"completed", "failed"})
            => (ledger[i].status = "completed"
                    <=> episodes[ledger[i].episode_id].status = COMPLETED)

\* C19: reset-stuck leaves unchanged every entry that is processing with a
\* linked Job id: the entries its write sets to pending have status
\* processing and no linked Job id, and belong to its subscription.
C19_ResetSparesLinked ==
    [][\A b \in BatchIds :
         (batches[b].pc = "reset" /\ batches'[b].pc = "reset_done") =>
            \A i \in DOMAIN ledger :
               (ledger[i].status = "processing" /\ ledger'[i] # ledger[i]) =>
                  /\ ledger[i].subscription_id = batches[b].sub
                  /\ ledger[i].episode_id = NULL]_vars

\* The batch runs whose pipeline run for ledger entry i is in flight.
InFlightFor(i) ==
    {b \in BatchIds : /\ batches[b].pc = "run"
                      /\ batches[b].eps[batches[b].k] = i
                      /\ Active(batches[b].run)}

\* C20: for every ledger entry at most one pipeline run is in flight at any
\* time, whatever the interleaving of the requests.
C20_OneRunPerEntry ==
    \A i \in DOMAIN ledger : Cardinality(InFlightFor(i)) <= 1

\* C21: an entry that reset-stuck returned to pending is handed to the
\* pipeline by a later poll cycle of its active subscription: once a poll
\* that started after the reset has completed with the subscription checked
\* successfully, no entry of that subscription is still pending.
C21_PollRetriesResetEntries ==
    (ResetDone /\ poll.pc = "done") =>
        \A i \in DOMAIN ledger :
            (/\ ledger[i].subscription_id \in poll.subscriptions
             /\ tasks[ledger[i].subscription_id].result.success)
                => ledger[i].status # "pending"

\* The feed operations whose URL the guard rejects.
Unsafe(o) == ops[o].kind # "none" /\ ~validate_feed_url(ops[o].feed_url)

\* C22: fetch_rss_feed on a URL the guard rejects raises ValueError before
\* any network access: no GET is ever issued for that URL, the operation ends
\* with the unsafe-URL error having found no episode, and no step of it
\* creates or changes a ledger entry.
C22_UnsafeUrlNeverFetched ==
    /\ [](\A o \in OpIds :
            Unsafe(o) =>
               /\ ~ops[o].requested
               /\ ops[o].pc \in {"fetch", "done"}
               /\ ops[o].pc = "done" => ops[o].outcome = "ValueError"
               /\ ops[o].new_episode_ids = <<>> /\ ops[o].stored = 0)
    /\ [][\A o \in OpIds :
            (Unsafe(o) /\ ops'[o] # ops[o]) => ledger' = ledger]_vars

\* A check of a subscription whose stored feed URL is private has returned.
C22_Witness ==
    \E o \in OpIds :
        /\ ops[o].kind = "check" /\ ops[o].feed_url = PrivateUrl
        /\ ops[o].pc = "done" /\ ops[o].outcome = "ValueError"

\* C23: every network fetch for an externally supplied URL is issued only
\* after the guard has accepted that URL: the feed GET of a feed operation,
\* and the audio GET of download_audio in a pipeline run.
C23_EveryFetchIsGuarded ==
    /\ \A o \in OpIds : ops[o].requested => validate_feed_url(ops[o].feed_url)
    /\ \A r \in RunIds : runs[r].fetched => validate_feed_url(runs[r].audio_path)

\* The step is a subscribe request arriving in frame o.
Subscribes(o) == ops[o].kind = "none" /\ ops'[o].kind # "none"

\* C27: a subscribe request whose feed URL the guard rejects is answered 400
\* at once with no side effect: no subscription record, no ledger entry, no
\* initial fetch scheduled then or later.  A request with an accepted feed
\* URL is never answered 400, and when its artwork URL is invalid the record
\* it creates stores a null artwork URL.
C27_RejectedSubscribeIsInert ==
    /\ [][\A o \in OpIds :
            (Subscribes(o) /\ ~validate_feed_url(ops'[o].feed_url)) =>
               /\ ops'[o].kind = "subscribe" /\ ops'[o].pc = "done"
               /\ ops'[o].outcome = "400"
               /\ subscriptions' = subscriptions /\ ledger' = ledger]_vars
    /\ [][\A o \in OpIds :
            (Subscribes(o) /\ validate_feed_url(ops'[o].feed_url)) =>
               /\ ops'[o].outcome # "400"
               /\ (/\ ops'[o].kind = "initial"
                   /\ validate_artwork_url(ops'[o].artwork_url) = <<>>) =>
                      /\ subscriptions'[ops'[o].sub] # NoSubscription
                      /\ subscriptions'[ops'[o].sub].artwork_url = <<>>]_vars
    /\ [](\A o \in OpIds :
            (ops[o].kind # "none" /\ ~validate_feed_url(ops[o].feed_url)) =>
               /\ ops[o].kind = "subscribe" /\ ~ops[o].requested
               /\ ops[o].stored = 0)

\* One request was rejected for its private feed URL, and another was
\* accepted with an artwork URL that is no picture.
C27_Witness ==
    \E o, p \in OpIds :
        /\ ops[o].kind = "subscribe" /\ ops[o].outcome = "400"
        /\ ops[o].feed_url = PrivateUrl
        /\ subscriptions[ops[o].sub] = NoSubscription
        /\ ops[p].kind = "initial" /\ ops[p].artwork_url = <<NoPicture>>
        /\ subscriptions[ops[p].sub] # NoSubscription
        /\ subscriptions[ops[p].sub].artwork_url = <<>>

\* The frame holds the value the named function returned.
Returned_by(o, function) == ops[o].kind = function /\ ops[o].pc = "done"

\* The decimal value of a host label that is an octet of the model.
octet ==
    [label \in {"0", "1", "5", "10", "11", "16", "31", "32", "127", "168",
                 "169", "172", "192"} |->
        CASE label = "0" -> 0 [] label = "1" -> 1 [] label = "5" -> 5
          [] label = "10" -> 10 [] label = "11" -> 11 [] label = "16" -> 16
          [] label = "31" -> 31 [] label = "32" -> 32 [] label = "127" -> 127
          [] label = "168" -> 168 [] label = "169" -> 169
          [] label = "172" -> 172 [] label = "192" -> 192]

IsAddress(host) == Len(host) = 4 /\ \A i \in 1..4 : host[i] \in DOMAIN octet

\* 10.0.0.0/8, 172.16.0.0/12 or 192.168.0.0/16.
InPrivateRange(host) ==
    /\ IsAddress(host)
    /\ \/ octet[host[1]] = 10
       \/ octet[host[1]] = 172 /\ octet[host[2]] \in 16..31
       \/ octet[host[1]] = 192 /\ octet[host[2]] = 168

IsPublic(host) ==
    /\ host # <<>>
    /\ host \notin BLOCKED_HOSTS
    /\ ~InPrivateRange(host)

\* C24: validate_feed_url returns true if and only if the scheme is http or
\* https and the hostname is public, that is not empty, not a loopback or
\* localhost alias and not inside 10.0.0.0/8, 172.16.0.0/12 or
\* 192.168.0.0/16, whatever credentials the URL embeds.
C24_AcceptsExactlyPublicHttp ==
    \A o \in OpIds :
        Returned_by(o, "validate_feed_url") =>
            LET url == ops[o].args[1]
            IN  ops[o].result[1] = (url.scheme \in {"http", "https"} /\ IsPublic(url.host))

IsTrusted(url) == url \notin {<<>>, <<EmptyUrl>>} /\ url[1].host \in TRUSTED_ARTWORK_HOSTS

\* C25 as stated: validate_artwork_url returns None for None and for the
\* empty string, the input unchanged for any URL whose host is a listed
\* trusted host, and always the input itself or None.
C25_AsStated ==
    \A o \in OpIds :
        Returned_by(o, "validate_artwork_url") =>
            LET url == ops[o].args[1]
                value == ops[o].result[1]
            IN  /\ url \in {<<>>, <<EmptyUrl>>} => value = <<>>
                /\ IsTrusted(url) => value = url
                /\ value \in {url, <<>>}

\* C25: validate_artwork_url returns None for None and for the empty string,
\* the input unchanged for any http or https URL whose host is a listed
\* trusted host, None for a URL of any other scheme even to a trusted host,
\* and always the input itself or None.
C25_TrustedHttpHostsPass ==
    \A o \in OpIds :
        Returned_by(o, "validate_artwork_url") =>
            LET url == ops[o].args[1]
                value == ops[o].result[1]
            IN  /\ url \in {<<>>, <<EmptyUrl>>} => value = <<>>
                /\ IsTrusted(url) =>
                      value = IF url[1].scheme \in {"http", "https"} THEN url ELSE <<>>
                /\ value \in {url, <<>>}

\* A URL to a trusted host whose path does not look like a picture came back
\* unchanged.
C25_Witness ==
    \E o \in OpIds :
        /\ Returned_by(o, "validate_artwork_url")
        /\ IsTrusted(ops[o].args[1])
        /\ ops[o].args[1][1].dirs = <<"ab67">>
        /\ ops[o].result[1] = ops[o].args[1]

\* The episodes are in publish-date order, newest first, undated ones last.
Descending(eps) ==
    \A i, k \in DOMAIN eps : i < k => eps[i].publish_date >= eps[k].publish_date

\* C26: for every integer limit N, 0 included, fetch_rss_feed returns at
\* most N episodes, and for every limit, none included, the list is in
\* publish-date order, newest first with undated entries last, and holds
\* the N newest entries of the feed.
C26_AtMostLimitNewestFirst ==
    \A o \in OpIds :
        Returned_by(o, "fetch_rss_feed") =>
            LET limit == ops[o].args[2]
                all == sort_newest_first(parse_entries(ops[o].args[1]))
                value == ops[o].result[1]
            IN  /\ limit # NoLimit => Len(value) <= limit
                /\ Descending(value)
                /\ value = SubSeq(all, 1, Len(value))
                /\ Len(value) < Len(all) => limit # NoLimit

\* Batch run b is inside process_subscription_episodes.
InLoop(b) == batches[b].pc \in {"mark", "create", "link", "run"}

\* Batch run b is handling entry id or has it still before it.
Ahead(b, id) ==
    /\ InLoop(b)
    /\ \E n \in DOMAIN batches[b].eps : n >= batches[b].k /\ batches[b].eps[n] = id

Settled(id) == ledger[id].status \in {"completed", "failed"}

C29_ResetSparesQueued ==
    [][\A b \in BatchIds :
         (batches[b].pc = "reset" /\ batches'[b].pc = "reset_done") =>
            \A i \in DOMAIN ledger :
               ledger'[i] # ledger[i] => ~\E q \in BatchIds : Ahead(q, i)]_vars

\* C30: every started pipeline run eventually writes stage completed or
\* stage failed, given that each external call returns: no run stays for
\* ever in a non-terminal stage, also when the transcription service answers
\* queued or processing to every poll.
C30_EveryRunEnds ==
    \A r \in RunIds :
        Active(r) ~> (/\ runs[r].pc = "done"
                      /\ episodes[runs[r].job].status \in {COMPLETED, FAILED})

\* The row has a transcript to rename.
HasTranscript(row) ==
    row # <<>> /\ row[1].transcript # <<>> /\ row[1].transcript # <<EmptyText>>

C32_ProgressInSubRange ==
    \A o \in OpIds :
        ops[o].kind = "transcribe_audio" =>
            /\ \A i \in DOMAIN ops[o].result : ops[o].result[i] \in 30..55
            /\ \A i, k \in DOMAIN ops[o].result :
                  i < k => ops[o].result[i] <= ops[o].result[k]

\* A transcription has reported the lowest value, a value in between, and
\* the value at which the estimate saturates.
C32_Witness ==
    \E o \in OpIds :
        /\ ops[o].kind = "transcribe_audio" /\ ops[o].pc = "done"
        /\ \E i, k, n \in DOMAIN ops[o].result :
              /\ i < k /\ k < n
              /\ ops[o].result[i] = 30
              /\ ops[o].result[k] \in 31..52
              /\ ops[o].result[n] = 53

\* The step is resume request q reading Job j, which is unknown or completed.
ResumeOfDoneOrUnknown(q) ==
    /\ resume[q].pc = "idle" /\ resume'[q].pc # "idle"
    /\ \/ ~Exists(resume'[q].job)
       \/ episodes[resume'[q].job].status = COMPLETED

\* C33: a resume request on a Job whose stage is completed, and one on an
\* unknown Job id, is answered with an error and changes nothing: the step
\* writes no Job row and starts no run, and the request is over, so it
\* never resets the Job or starts a run later either.
C33_ResumeRejectedIsInert ==
    /\ [][\A q \in ReqIds :
            ResumeOfDoneOrUnknown(q) =>
               /\ resume'[q].pc = "done"
               /\ resume'[q].response \in {"404", "400 already completed"}
               /\ episodes' = episodes /\ runs' = runs
               /\ detached' = detached]_vars
    /\ [](\A q \in ReqIds :
            resume[q].response \in {"404", "400 already completed"} =>
               /\ resume[q].pc = "done" /\ ~resume[q].didReset
               /\ \A r \in RunIds : ~(runs[r].origin = "resume" /\ runs[r].by = q))

\* A resume of a completed Job was answered 400; the Job is still completed.
C33_Witness ==
    \E q \in ReqIds :
        /\ resume[q].response = "400 already completed"
        /\ episodes[resume[q].job].status = COMPLETED
        /\ episodes[resume[q].job].progress = 100

\* The entry carries an audio enclosure, or an audio media-content item,
\* that has a URL.
HasAudio(entry) ==
    \/ \E i \in DOMAIN entry.enclosures :
          is_audio(entry.enclosures[i].type) /\ truthy(entry.enclosures[i].href)
    \/ \E i \in DOMAIN entry.media_content :
          is_audio(entry.media_content[i].type) /\ truthy(entry.media_content[i].url)

\* The position of the first audio item of a list, 0 when there is none.
FirstAudioAt(items) ==
    IF \E i \in DOMAIN items : is_audio(items[i].type)
    THEN CHOOSE i \in DOMAIN items :
            /\ is_audio(items[i].type)
            /\ \A k \in 1..(i - 1) : ~is_audio(items[k].type)
    ELSE 0

\* The URL of the first audio enclosure, else of the first audio
\* media-content item; NULL when that gives none.
ResolvedUrl(entry) ==
    LET i == FirstAudioAt(entry.enclosures)
        k == FirstAudioAt(entry.media_content)
    IN  IF i > 0 /\ truthy(entry.enclosures[i].href) THEN entry.enclosures[i].href
        ELSE IF k > 0 /\ truthy(entry.media_content[k].url)
             THEN entry.media_content[k].url
        ELSE NULL

Kept(entries, keeps(_)) == {i \in DOMAIN entries : keeps(entries[i])}

\* Every candidate has an audio URL and a dedup key.
Resolved(value) ==
    \A i \in DOMAIN value : truthy(value[i].audio_url) /\ truthy(value[i].guid)

\* C34 as stated: fetch_rss_feed returns a candidate for exactly the entries
\* that have an audio enclosure or, failing that, an audio media-content
\* item, and every candidate has a non-empty audio URL and dedup key.
C34_AsStated ==
    \A o \in OpIds :
        (Returned_by(o, "fetch_rss_feed") /\ ops[o].args[2] = NoLimit) =>
            /\ Len(ops[o].result[1]) = Cardinality(Kept(ops[o].args[1], HasAudio))
            /\ Resolved(ops[o].result[1])

HasResolvedUrl(entry) == truthy(ResolvedUrl(entry))

\* C34: fetch_rss_feed returns a candidate for exactly the entries whose
\* first audio enclosure carries a URL or, failing that, whose first audio
\* media-content item carries one; an audio item after a first one without
\* a URL is not looked at.  The other entries are dropped, and every
\* candidate has that URL as its audio URL and a non-empty dedup key.
C34_FirstAudioItemDecides ==
    \A o \in OpIds :
        (Returned_by(o, "fetch_rss_feed") /\ ops[o].args[2] = NoLimit) =>
            LET entries == ops[o].args[1]
                value == ops[o].result[1]
            IN  /\ Len(value) = Cardinality(Kept(entries, HasResolvedUrl))
                /\ Resolved(value)
                /\ \A i \in Kept(entries, HasResolvedUrl) :
                      \E k \in DOMAIN value :
                         /\ value[k].audio_url = ResolvedUrl(entries[i])
                         /\ value[k].publish_date = entries[i].date
                         /\ value[k].guid =
                               IF entries[i].guid # NULL THEN entries[i].guid
                               ELSE md5(ResolvedUrl(entries[i]))

\* A feed of three items, of which one has no audio enclosure, gave two
\* candidates.
C34_Witness ==
    \E o \in OpIds :
        /\ Returned_by(o, "fetch_rss_feed") /\ ops[o].args[2] = NoLimit
        /\ Len(ops[o].args[1]) = 3
        /\ Cardinality({i \in 1..3 : ops[o].args[1][i].enclosures = <<>>
                                      /\ ops[o].args[1][i].media_content = <<>>}) = 1
        /\ Len(ops[o].result[1]) = 2

\* C35: when a pipeline run fails, the write that marks the Job failed also
\* sets the persisted progress to 0, whatever progress the run had reached.
C35_FailureZeroesProgress ==
    [][\A r \in RunIds :
         FailsNow(r) =>
            /\ Row(runs[r].job).status' = FAILED
            /\ Row(runs[r].job).progress' = 0]_vars

\* A run failed while summarizing, after progress 85 had been written: the
\* Job is failed with progress 0.
C35_Witness ==
    \E r \in RunIds :
        /\ runs[r].pc = "done"
        /\ runs[r].raised \in Raises("summarizing")
        /\ Row(runs[r].job).status = FAILED
        /\ Row(runs[r].job).progress = 0
        /\ Row(runs[r].job).checkpoint_stage = "transcribed"

\* C36: the reset performed by resume on a failed Job writes only stage
\* (pending) and progress (0): error, status message, checkpoint marker,
\* transcript, cleaned transcript and summary are left as they were; and the
\* error of a Job changes only in a write that marks the Job failed, so the old
\* error stays on the Job, also after the resumed run completes.
C36_ResetKeepsErrorAndArtifacts ==
    [][ /\ \A q \in ReqIds :
             (resume[q].pc = "reset" /\ resume'[q].pc # "reset") =>
               Row(resume[q].job)' =
                  [Row(resume[q].job) EXCEPT !.status = PENDING, !.progress = 0]
        /\ \A j \in JobIds :
             (Exists(j) /\ episodes'[j].error # episodes[j].error) =>
               episodes'[j].status = FAILED ]_vars

\* A Job that failed, was resumed and completed in the resumed run still
\* carries the error of the earlier failure.
C36_Witness ==
    \E r \in RunIds :
        /\ runs[r].origin = "resume"
        /\ runs[r].pc = "done"
        /\ runs[r].raised = NULL
        /\ resume[runs[r].by].didReset
        /\ Row(runs[r].job).status = COMPLETED
        /\ Row(runs[r].job).error # NULL

\* The new-entry count the check of subscription s returned to its poll task.
NewCount(s) == ops[tasks[s].op].new_count

\* The polled subscriptions counted in checked: their task returned success.
Checked == {s \in poll.subscriptions : tasks[s].result.success}

\* C37: in every result of check_all_active_subscriptions, total is the number
\* of active subscriptions loaded at the start of the poll, checked + errors =
\* total, and new_episodes is the sum of the new-entry counts of the
\* subscriptions counted in checked; with no active subscription loaded all
\* four counts are 0.
C37_PollResultAddsUp ==
    poll.pc = "done" =>
        /\ poll.result.total = Cardinality(poll.subscriptions)
        /\ poll.result.checked = Cardinality(Checked)
        /\ poll.result.checked + poll.result.errors = poll.result.total
        /\ poll.result.new_episodes = Sum([s \in Checked |-> NewCount(s)], Checked)
        /\ poll.subscriptions = {} =>
              poll.result = [total |-> 0, checked |-> 0, new_episodes |-> 0,
                             errors |-> 0]

\* Two subscriptions were polled and both checks found a new entry; one task
\* failed in auto-processing, so the result counts one entry, not two.
C37_Witness ==
    /\ poll.pc = "done"
    /\ poll.result = [total |-> 2, checked |-> 1, new_episodes |-> 1, errors |-> 1]
    /\ \A s \in poll.subscriptions : NewCount(s) = 1

\* The poll tasks that are inside auto_process_episodes.
AutoProcessing == {s \in SubIds : tasks[s].pc = "auto"}

\* The pipeline runs in flight that the auto-processing of a poll task started.
PollRuns ==
    {r \in RunIds : /\ Active(r)
                    /\ runs[r].origin = "subscription"
                    /\ \E s \in SubIds : /\ tasks[s].batch # 0
                                         /\ tasks[s].batch = runs[r].by}

\* C38: a poll task keeps its semaphore slot through the auto-processing of
\* the entries its check found: at most MAX_CONCURRENT_CHECKS pipeline runs
\* started by the poll are in flight, a task leaves auto-processing only when
\* its auto_process_episodes call is over and gives its slot back in that
\* step, and no task enters the semaphore (and so none starts its feed fetch)
\* while MAX_CONCURRENT_CHECKS tasks are auto-processing.
C38_SlotHeldThroughAutoProcessing ==
    /\ [](Cardinality(PollRuns) <= MaxConcurrentChecks)
    /\ [][\A s \in SubIds :
            (tasks[s].pc = "auto" /\ tasks'[s].pc # "auto") =>
               /\ batches[tasks[s].batch].pc \in {"done", "raised"}
               /\ poll'.permits = poll.permits + 1]_vars
    /\ [][\A s \in SubIds :
            (tasks[s].pc = "wait" /\ tasks'[s].pc # "wait") =>
               Cardinality(AutoProcessing) < MaxConcurrentChecks]_vars

\* One task's auto-processing has a pipeline run transcribing in the only
\* slot while the other subscription's task waits for the semaphore.
C38_Witness ==
    \E s, w \in SubIds :
        /\ tasks[s].pc = "auto"
        /\ \E r \in PollRuns : /\ runs[r].by = tasks[s].batch
                                /\ runs[r].pc = "transcribing"
        /\ tasks[w].pc = "wait"
        /\ poll.permits = 0

\* The statuses of a ledger entry the coordinator writes at the end of its
\* work on the entry.
Terminal == {"completed", "failed"}

\* C39: ledger statuses completed and failed are absorbing: once an entry has
\* status completed or failed no step changes its status, and no step creates
\* another Job for it.
C39_TerminalIsAbsorbing ==
    [][ /\ \A i \in DOMAIN ledger :
             ledger[i].status \in Terminal =>
                /\ i \in DOMAIN ledger'
                /\ ledger'[i].status = ledger[i].status
                /\ ledger'[i].episode_id = ledger[i].episode_id
        /\ \A b \in BatchIds :
             (batches[b].pc = "create" /\ batches'[b].pc = "link") =>
                ledger[batches[b].eps[batches[b].k]].status \notin Terminal
      ]_vars

====
